---- MODULE Spec2Model ----
(***************************************************************************)
(* State-machine model of the chanze backend's authentication service      *)
(* (backend/app/services/auth_service.py) over its document store.         *)
(*                                                                         *)
(* Each request handler is cut at its awaits on the store: the step that   *)
(* reads (find_one / get) and the step that writes (insert / save) are     *)
(* separate actions, and between them the request is in flight, holding    *)
(* the document it is about to write, so that two requests interleave      *)
(* exactly where the asyncio event loop lets them.  A save writes the      *)
(* whole document the handler holds.  Handlers that only read are one      *)
(* action.                                                                 *)
(*                                                                         *)
(* Optional values are <<>> (None) or <<x>>.  Opaque tokens are numbered   *)
(* in the order generate_random_token issues them: 32 characters drawn     *)
(* with secrets.choice are taken never to repeat.  Time is counted in      *)
(* hours.                                                                  *)
(***************************************************************************)
EXTENDS Integers, Sequences, FiniteSets, Bags, TLC

\* ------------------------------------------------------------------ bounds
MaxTime == 1
MaxTokens == 3
MaxUsers == 2
MaxRows == 2
MaxTemplates == 1
MaxItems == 2

\* The requests the event loop holds suspended at one time.
Slots == {"s1", "s2"}

Emails == {"a@x.io", "b@x.io"}

\* Passwords are sequences of characters.
PwWeak == <<"w", "e", "a", "k">>
PwAbcd1234 == <<"A", "b", "c", "d", "1", "2", "3", "4">>
PwXyzw5678 == <<"X", "y", "z", "w", "5", "6", "7", "8">>
Passwords == {PwWeak, PwAbcd1234, PwXyzw5678}

\* ------------------------------------------------------- program constants
password_reset_expire_hours == 1
access_token_expire_minutes == 1440

\* ------------------------------------------------------------------ values
None == <<>>
Some(x) == <<x>>

LowerChars == {"a", "b", "c", "d", "e", "k", "w", "y", "z"}
UpperChars == {"A", "X"}
DigitChars == {"1", "2", "3", "4", "5", "6", "7", "8"}

Chars(s) == {s[i] : i \in 1..Len(s)}

\* validate_password looking for the uppercase letter before the lowercase one.
validate_password_UpperFirst(password) ==
    IF Len(password) < 8
    THEN [ok |-> FALSE, message |-> "Password must be at least 8 characters long"]
    ELSE IF Chars(password) \cap UpperChars = {}
    THEN [ok |-> FALSE, message |-> "Password must contain at least one uppercase letter"]
    ELSE IF Chars(password) \cap LowerChars = {}
    THEN [ok |-> FALSE, message |-> "Password must contain at least one lowercase letter"]
    ELSE IF Chars(password) \cap DigitChars = {}
    THEN [ok |-> FALSE, message |-> "Password must contain at least one digit"]
    ELSE [ok |-> TRUE, message |-> "Password is valid"]

\* core/security.py validate_password: the first violated rule, in order.
validate_password(password) ==
    IF Len(password) < 8
    THEN [ok |-> FALSE, message |-> "Password must be at least 8 characters long"]
    ELSE IF Chars(password) \cap LowerChars = {}
    THEN [ok |-> FALSE, message |-> "Password must contain at least one lowercase letter"]
    ELSE IF Chars(password) \cap UpperChars = {}
    THEN [ok |-> FALSE, message |-> "Password must contain at least one uppercase letter"]
    ELSE IF Chars(password) \cap DigitChars = {}
    THEN [ok |-> FALSE, message |-> "Password must contain at least one digit"]
    ELSE [ok |-> TRUE, message |-> "Password is valid"]

\* core/security.py get_password_hash / verify_password: a one-way hash that
\* verifies exactly the password it was made from.
get_password_hash(password) == [alg |-> "bcrypt", of |-> password]
verify_password(plain_password, hashed_password) == hashed_password.of = plain_password

\* str(user.id) and the parse User.get makes of it.
IdStr(id) == <<"oid", id>>
ParseId(s) == IF Len(s) = 2 /\ s[1] = "oid" THEN Some(s[2]) ELSE None

\* core/security.py create_access_token: the claims, with iat and exp added.
create_access_token(data, t) ==
    [sub |-> data.sub, user_id |-> data.user_id, iat |-> t,
     exp |-> t + (access_token_expire_minutes \div 60)]

\* ------------------------------------------------------------------- state
VARIABLES
    users,      \* the users collection: users[id] is the stored document
    now,        \* datetime.now(UTC), in hours
    issued,     \* number of opaque tokens generate_random_token has returned
    inflight,   \* bag of the requests suspended at their await of insert/save
    templates,  \* the task_templates collection: None where a row was deleted
    items       \* the task_items collection: None where a row was deleted

vars == <<users, now, issued, inflight, templates, items>>

\* models/user.py User, as register_user constructs it.  created_at is set
\* once and read by no handler; it is left out of the document.
User(email, password_hash, verification_token, t) ==
    [email |-> email,
     password_hash |-> password_hash,
     is_active |-> TRUE,
     is_verified |-> FALSE,
     updated_at |-> t,
     email_verification_token |-> Some(verification_token),
     password_reset_token |-> None,
     password_reset_expires |-> None]

\* Document.find_one({field: value}): the first stored document that matches.
Matching(store, field, value) == {i \in 1..Len(store) : store[i][field] = value}
Least(S) == CHOOSE i \in S : \A j \in S : i <= j
find_one(store, field, value) ==
    IF Matching(store, field, value) = {} THEN None
    ELSE Some(Least(Matching(store, field, value)))

\* Document.get(id)
get(store, id_str) ==
    IF ParseId(id_str) /= None /\ ParseId(id_str)[1] \in 1..Len(store)
    THEN Some(ParseId(id_str)[1]) ELSE None

\* UniqueIndexAllows with the index built without unique=True.
UniqueIndexAllows_NotUnique(store, email) == TRUE

\* The unique index on email (Indexed(EmailStr, unique=True)).
UniqueIndexAllows(store, email) == find_one(store, "email", email) = None

\* Document.insert() and Document.save() (the whole document, by id).
insert(store, document) == Append(store, document)
save(store, id, document) == [store EXCEPT ![id] = document]

\* ---------------------------------------------------------------- responses
Pending == [status |-> 0, code |-> "PENDING", message |-> "",
            user_id |-> None, access_token |-> None, token_type |-> None]

AuthResponse(message, user_id, access_token) ==
    [status |-> 200, code |-> "OK", message |-> message,
     user_id |-> user_id, access_token |-> access_token,
     token_type |-> IF access_token = None THEN None ELSE Some("bearer")]

HTTPError(status, code, message) ==
    [status |-> status, code |-> code, message |-> message,
     user_id |-> None, access_token |-> None, token_type |-> None]

EmailAlreadyExists == HTTPError(409, "EMAIL_ALREADY_EXISTS", "An account with this email already exists")
ValidationError(message) == HTTPError(400, "VALIDATION_ERROR", message)
InvalidVerificationToken == HTTPError(400, "INVALID_TOKEN", "Invalid or expired verification token")
InvalidResetToken == HTTPError(400, "INVALID_TOKEN", "Invalid or expired reset token")
InvalidCredentials == HTTPError(401, "INVALID_CREDENTIALS", "Incorrect email or password")
AccountDisabled == HTTPError(403, "ACCOUNT_DISABLED", "Account has been disabled")
EmailNotVerified == HTTPError(403, "EMAIL_NOT_VERIFIED", "Please verify your email address before logging in")
\* get_current_user raises with a plain string detail, which main.py's
\* http_exception_handler formats as HTTP_ERROR.
Unauthorized(message) == HTTPError(401, "HTTP_ERROR", message)
\* main.py general_exception_handler
InternalServerError == HTTPError(500, "INTERNAL_SERVER_ERROR", "An internal server error occurred")

Mail(kind, to, token, sent) == Some([kind |-> kind, to |-> to, token |-> token, sent |-> sent])

\* A request suspended at its await of insert()/save(): the handler, the id of
\* the document it read (0 for a document not yet inserted), and the document
\* it holds, with the handler's assignments made.
Request(op, id, user) == [op |-> op, id |-> id, user |-> user]

\* What a handler's run up to its next await comes to: the response (Pending
\* when the handler is suspended), the store it leaves, the email it had the
\* Notification Gateway send, and the request it suspends as.
Outcome(response, store, mail, request) ==
    [response |-> response, users |-> store, mail |-> mail, request |-> request]

\* --------------------------------------------------------------- handlers
\* register_user with the existence check left out.
register_user_NoExistenceCheck(store, email, password, t, fresh) ==
    IF ~validate_password(password).ok
    THEN Outcome(ValidationError(validate_password(password).message), store, None, None)
    ELSE Outcome(Pending, store, None,
                 Some(Request("register", 0, User(email, get_password_hash(password), fresh, t))))

\* register_user checking the password before the email.
register_user_PasswordFirst(store, email, password, t, fresh) ==
    IF ~validate_password(password).ok
    THEN Outcome(ValidationError(validate_password(password).message), store, None, None)
    ELSE IF find_one(store, "email", email) /= None
    THEN Outcome(EmailAlreadyExists, store, None, None)
    ELSE Outcome(Pending, store, None,
                 Some(Request("register", 0, User(email, get_password_hash(password), fresh, t))))

\* register_user, lines 26-70: the existence check, the password check, and
\* the construction of the document, up to the await of insert().
register_user(store, email, password, t, fresh) ==
    IF find_one(store, "email", email) /= None
    THEN Outcome(EmailAlreadyExists, store, None, None)
    ELSE IF ~validate_password(password).ok
    THEN Outcome(ValidationError(validate_password(password).message), store, None, None)
    ELSE Outcome(Pending, store, None,
                 Some(Request("register", 0, User(email, get_password_hash(password), fresh, t))))

\* register_user_insert answering as verify_email does, with an access token.
register_user_insert_WithToken(store, r, sent) ==
    IF UniqueIndexAllows(store, r.user.email)
    THEN Outcome(AuthResponse("Registration successful. Please check your email for verification.",
                              Some(IdStr(Len(store) + 1)),
                              Some(create_access_token(
                                  [sub |-> r.user.email, user_id |-> IdStr(Len(store) + 1)], 0))),
                 insert(store, r.user),
                 Mail("verification", r.user.email, r.user.email_verification_token, sent),
                 None)
    ELSE Outcome(InternalServerError, store, None, None)

\* register_user, lines 71-86: insert(), the verification email, the response.
\* The insert is refused by the unique index when the email is stored by now;
\* the refusal is pymongo's DuplicateKeyError, which nothing catches but
\* main.py's general_exception_handler.
register_user_insert(store, r, sent) ==
    IF UniqueIndexAllows(store, r.user.email)
    THEN Outcome(AuthResponse("Registration successful. Please check your email for verification.",
                              Some(IdStr(Len(store) + 1)), None),
                 insert(store, r.user),
                 Mail("verification", r.user.email, r.user.email_verification_token, sent),
                 None)
    ELSE Outcome(InternalServerError, store, None, None)

\* verify_email leaving the verification token with the user.
verify_email_KeepsToken(store, token, t) ==
    LET found == find_one(store, "email_verification_token", Some(token)) IN
    IF found = None
    THEN Outcome(InvalidVerificationToken, store, None, None)
    ELSE Outcome(Pending, store, None,
                 Some(Request("verify_email", found[1],
                              [store[found[1]] EXCEPT !.is_verified = TRUE,
                                                      !.updated_at = t])))

\* verify_email, lines 90-110: the lookup by token and the assignments, up to
\* the await of save().
verify_email(store, token, t) ==
    LET found == find_one(store, "email_verification_token", Some(token)) IN
    IF found = None
    THEN Outcome(InvalidVerificationToken, store, None, None)
    ELSE Outcome(Pending, store, None,
                 Some(Request("verify_email", found[1],
                              [store[found[1]] EXCEPT !.is_verified = TRUE,
                                                      !.email_verification_token = None,
                                                      !.updated_at = t])))

\* verify_email_save with a failed welcome email failing the request.
verify_email_save_FailsOnSend(store, r, t, sent) ==
    Outcome(IF sent
            THEN AuthResponse("Email verified successfully", Some(IdStr(r.id)),
                              Some(create_access_token(
                                  [sub |-> r.user.email, user_id |-> IdStr(r.id)], t)))
            ELSE InternalServerError,
            save(store, r.id, r.user),
            Mail("welcome", r.user.email, None, sent),
            None)

\* verify_email, lines 111-126: save(), the access token, the welcome email.
verify_email_save(store, r, t, sent) ==
    Outcome(AuthResponse("Email verified successfully", Some(IdStr(r.id)),
                         Some(create_access_token(
                             [sub |-> r.user.email, user_id |-> IdStr(r.id)], t))),
            save(store, r.id, r.user),
            Mail("welcome", r.user.email, None, sent),
            None)

\* login_user checking is_verified before is_active.
login_user_VerifiedFirst(store, email, password, t) ==
    LET found == find_one(store, "email", email) IN
    IF found = None \/ ~verify_password(password, store[found[1]].password_hash)
    THEN InvalidCredentials
    ELSE IF ~store[found[1]].is_verified THEN EmailNotVerified
    ELSE IF ~store[found[1]].is_active THEN AccountDisabled
    ELSE AuthResponse("Login successful", Some(IdStr(found[1])),
                      Some(create_access_token(
                          [sub |-> store[found[1]].email, user_id |-> IdStr(found[1])], t)))

\* login_user checking the account's flags before the password.
login_user_FlagsFirst(store, email, password, t) ==
    LET found == find_one(store, "email", email) IN
    IF found = None THEN InvalidCredentials
    ELSE IF ~store[found[1]].is_active THEN AccountDisabled
    ELSE IF ~store[found[1]].is_verified THEN EmailNotVerified
    ELSE IF ~verify_password(password, store[found[1]].password_hash)
    THEN InvalidCredentials
    ELSE AuthResponse("Login successful", Some(IdStr(found[1])),
                      Some(create_access_token(
                          [sub |-> store[found[1]].email, user_id |-> IdStr(found[1])], t)))

\* login_user without the is_verified check.
login_user_NoVerifiedCheck(store, email, password, t) ==
    LET found == find_one(store, "email", email) IN
    IF found = None \/ ~verify_password(password, store[found[1]].password_hash)
    THEN InvalidCredentials
    ELSE IF ~store[found[1]].is_active THEN AccountDisabled
    ELSE AuthResponse("Login successful", Some(IdStr(found[1])),
                      Some(create_access_token(
                          [sub |-> store[found[1]].email, user_id |-> IdStr(found[1])], t)))

\* login_user, lines 130-187: one read of the store and the checks on it.
login_user(store, email, password, t) ==
    LET found == find_one(store, "email", email) IN
    IF found = None \/ ~verify_password(password, store[found[1]].password_hash)
    THEN InvalidCredentials
    ELSE IF ~store[found[1]].is_active THEN AccountDisabled
    ELSE IF ~store[found[1]].is_verified THEN EmailNotVerified
    ELSE AuthResponse("Login successful", Some(IdStr(found[1])),
                      Some(create_access_token(
                          [sub |-> store[found[1]].email, user_id |-> IdStr(found[1])], t)))

\* forgot_password as the repository's other revision has it: every user
\* found gets a token, whatever is_active and is_verified are.
forgot_password_NoEligibility(store, email, t, fresh) ==
    LET found == find_one(store, "email", email) IN
    IF found /= None
    THEN Outcome(Pending, store, None,
                 Some(Request("forgot_password", found[1],
                              [store[found[1]] EXCEPT
                                  !.password_reset_token = Some(fresh),
                                  !.password_reset_expires = Some(t + password_reset_expire_hours),
                                  !.updated_at = t])))
    ELSE Outcome(AuthResponse("If email exists, password reset instructions have been sent",
                              None, None),
                 store, None, None)

\* forgot_password keeping a reset token the user already holds, and only
\* pushing its expiry back.
forgot_password_KeepsToken(store, email, t, fresh) ==
    LET found == find_one(store, "email", email) IN
    IF found /= None /\ store[found[1]].is_active /\ store[found[1]].is_verified
    THEN Outcome(Pending, store, None,
                 Some(Request("forgot_password", found[1],
                              [store[found[1]] EXCEPT
                                  !.password_reset_token =
                                      IF @ = None THEN Some(fresh) ELSE @,
                                  !.password_reset_expires = Some(t + password_reset_expire_hours),
                                  !.updated_at = t])))
    ELSE Outcome(AuthResponse("If email exists, password reset instructions have been sent",
                              None, None),
                 store, None, None)

\* forgot_password serving every active user, verified or not.
forgot_password_UnverifiedToo(store, email, t, fresh) ==
    LET found == find_one(store, "email", email) IN
    IF found /= None /\ store[found[1]].is_active
    THEN Outcome(Pending, store, None,
                 Some(Request("forgot_password", found[1],
                              [store[found[1]] EXCEPT
                                  !.password_reset_token = Some(fresh),
                                  !.password_reset_expires = Some(t + password_reset_expire_hours),
                                  !.updated_at = t])))
    ELSE Outcome(AuthResponse("If email exists, password reset instructions have been sent",
                              None, None),
                 store, None, None)

\* forgot_password, lines 191-203 and 215: the lookup, the eligibility check,
\* the token and its expiry, up to the await of save().
forgot_password(store, email, t, fresh) ==
    LET found == find_one(store, "email", email) IN
    IF found /= None /\ store[found[1]].is_active /\ store[found[1]].is_verified
    THEN Outcome(Pending, store, None,
                 Some(Request("forgot_password", found[1],
                              [store[found[1]] EXCEPT
                                  !.password_reset_token = Some(fresh),
                                  !.password_reset_expires = Some(t + password_reset_expire_hours),
                                  !.updated_at = t])))
    ELSE Outcome(AuthResponse("If email exists, password reset instructions have been sent",
                              None, None),
                 store, None, None)

\* forgot_password_save telling the caller when the reset email did not go out.
forgot_password_save_ReportsSend(store, r, sent) ==
    Outcome(AuthResponse(IF sent
                         THEN "If email exists, password reset instructions have been sent"
                         ELSE "Failed to send password reset email",
                         None, None),
            save(store, r.id, r.user),
            Mail("password_reset", r.user.email, r.user.password_reset_token, sent),
            None)

\* forgot_password, lines 204-215: save(), the reset email, the response.
forgot_password_save(store, r, sent) ==
    Outcome(AuthResponse("If email exists, password reset instructions have been sent",
                         None, None),
            save(store, r.id, r.user),
            Mail("password_reset", r.user.email, r.user.password_reset_token, sent),
            None)

\* reset_password taking a token to be live up to and at its expiry.
reset_password_ExpiryInclusive(store, token, new_password, t) ==
    LET found == find_one(store, "password_reset_token", Some(token)) IN
    IF found = None \/ store[found[1]].password_reset_expires = None
    THEN Outcome(InvalidResetToken, store, None, None)
    ELSE IF store[found[1]].password_reset_expires[1] < t
    THEN Outcome(InvalidResetToken, store, None, None)
    ELSE IF ~validate_password(new_password).ok
    THEN Outcome(ValidationError(validate_password(new_password).message), store, None, None)
    ELSE Outcome(Pending, store, None,
                 Some(Request("reset_password", found[1],
                              [store[found[1]] EXCEPT
                                  !.password_hash = get_password_hash(new_password),
                                  !.password_reset_token = None,
                                  !.password_reset_expires = None,
                                  !.updated_at = t])))

\* reset_password leaving the token with the user, and clearing the expiry only.
reset_password_KeepsToken(store, token, new_password, t) ==
    LET found == find_one(store, "password_reset_token", Some(token)) IN
    IF found = None
    THEN Outcome(InvalidResetToken, store, None, None)
    ELSE IF store[found[1]].password_reset_expires /= None
            /\ store[found[1]].password_reset_expires[1] <= t
    THEN Outcome(InvalidResetToken, store, None, None)
    ELSE IF ~validate_password(new_password).ok
    THEN Outcome(ValidationError(validate_password(new_password).message), store, None, None)
    ELSE Outcome(Pending, store, None,
                 Some(Request("reset_password", found[1],
                              [store[found[1]] EXCEPT
                                  !.password_hash = get_password_hash(new_password),
                                  !.password_reset_expires = None,
                                  !.updated_at = t])))

\* reset_password consuming the token before it checks the new password.
reset_password_ConsumesFirst(store, token, new_password, t) ==
    LET found == find_one(store, "password_reset_token", Some(token)) IN
    IF found = None \/ store[found[1]].password_reset_expires = None
    THEN Outcome(InvalidResetToken, store, None, None)
    ELSE IF store[found[1]].password_reset_expires[1] <= t
    THEN Outcome(InvalidResetToken, store, None, None)
    ELSE IF ~validate_password(new_password).ok
    THEN Outcome(ValidationError(validate_password(new_password).message),
                 save(store, found[1], [store[found[1]] EXCEPT !.password_reset_token = None,
                                                              !.password_reset_expires = None]),
                 None, None)
    ELSE Outcome(Pending, store, None,
                 Some(Request("reset_password", found[1],
                              [store[found[1]] EXCEPT
                                  !.password_hash = get_password_hash(new_password),
                                  !.password_reset_token = None,
                                  !.password_reset_expires = None,
                                  !.updated_at = t])))

\* reset_password clearing the reset token and leaving its expiry.
reset_password_KeepsExpiry(store, token, new_password, t) ==
    LET found == find_one(store, "password_reset_token", Some(token)) IN
    IF found = None \/ store[found[1]].password_reset_expires = None
    THEN Outcome(InvalidResetToken, store, None, None)
    ELSE IF store[found[1]].password_reset_expires[1] <= t
    THEN Outcome(InvalidResetToken, store, None, None)
    ELSE IF ~validate_password(new_password).ok
    THEN Outcome(ValidationError(validate_password(new_password).message), store, None, None)
    ELSE Outcome(Pending, store, None,
                 Some(Request("reset_password", found[1],
                              [store[found[1]] EXCEPT
                                  !.password_hash = get_password_hash(new_password),
                                  !.password_reset_token = None,
                                  !.updated_at = t])))

\* reset_password, lines 219-278: the lookup by token, the expiry check, the
\* password check and the assignments, up to the await of save().
reset_password(store, token, new_password, t) ==
    LET found == find_one(store, "password_reset_token", Some(token)) IN
    IF found = None \/ store[found[1]].password_reset_expires = None
    THEN Outcome(InvalidResetToken, store, None, None)
    ELSE IF store[found[1]].password_reset_expires[1] <= t
    THEN Outcome(InvalidResetToken, store, None, None)
    ELSE IF ~validate_password(new_password).ok
    THEN Outcome(ValidationError(validate_password(new_password).message), store, None, None)
    ELSE Outcome(Pending, store, None,
                 Some(Request("reset_password", found[1],
                              [store[found[1]] EXCEPT
                                  !.password_hash = get_password_hash(new_password),
                                  !.password_reset_token = None,
                                  !.password_reset_expires = None,
                                  !.updated_at = t])))

\* reset_password_save answering without the save having reached the store.
reset_password_save_NoWrite(store, r) ==
    Outcome(AuthResponse("Password reset successfully", None, None), store, None, None)

\* reset_password, lines 279-281
reset_password_save(store, r) ==
    Outcome(AuthResponse("Password reset successfully", None, None),
            save(store, r.id, r.user), None, None)

\* get_by_reset_token taking a token to be live up to and at its expiry.
get_by_reset_token_ExpiryInclusive(store, token, t) ==
    LET user == find_one(store, "password_reset_token", Some(token)) IN
    IF user /= None /\ store[user[1]].password_reset_expires /= None
    THEN IF store[user[1]].password_reset_expires[1] >= t THEN user ELSE None
    ELSE None

\* repositories/user_repository.py get_by_reset_token, lines 19-30, over
\* base.py get_by_field (find_one): the user holding the token, when the
\* expiry is set and later than the clock.  The expiry is read back as a
\* naive datetime and taken as UTC, here as in reset_password: the hour stored.
get_by_reset_token(store, token, t) ==
    LET user == find_one(store, "password_reset_token", Some(token)) IN
    IF user /= None /\ store[user[1]].password_reset_expires /= None
    THEN IF store[user[1]].password_reset_expires[1] > t THEN user ELSE None
    ELSE None

\* Python's `not x` for a claim read with dict.get: the key is absent (None)
\* or its value is the empty string.
Missing(v, empty) == v = None \/ v[1] = empty

\* get_current_user without the is_active test.
get_current_user_IgnoresActive(store, token_payload) ==
    IF Missing(token_payload.user_id, <<>>) \/ Missing(token_payload.sub, "")
    THEN [user |-> None, error |-> Some(Unauthorized("Invalid token payload"))]
    ELSE LET found == get(store, token_payload.user_id[1]) IN
         IF found = None
         THEN [user |-> None, error |-> Some(Unauthorized("User not found or inactive"))]
         ELSE [user |-> found, error |-> None]

\* get_current_user, lines 285-302: the user's id, or the error raised.
get_current_user(store, token_payload) ==
    IF Missing(token_payload.user_id, <<>>) \/ Missing(token_payload.sub, "")
    THEN [user |-> None, error |-> Some(Unauthorized("Invalid token payload"))]
    ELSE LET found == get(store, token_payload.user_id[1]) IN
         IF found = None \/ ~store[found[1]].is_active
         THEN [user |-> None, error |-> Some(Unauthorized("User not found or inactive"))]
         ELSE [user |-> found, error |-> None]

\* The payloads a verified token can carry: those of issued access tokens, and
\* those with a claim missing or empty.  The empty id string is <<>>.
Payloads ==
    {[sub |-> sub, user_id |-> uid] :
        sub \in {None, Some("")} \cup {Some(e) : e \in Emails},
        uid \in {None, Some(<<>>)} \cup {Some(IdStr(i)) : i \in 1..MaxUsers}}

\* ------------------------------------------------------------ bearer tokens
\* config.py secret_key, and a key the service never signed with.
secret_key == "your-secret-key-here-change-in-production"
Keys == {secret_key, "forged"}

\* jwt.encode (create_access_token, line 37): the token a client holds is the
\* claims signed under a key.  A string that is no JWT has wellformed FALSE.
jwt_encode(claims, key) == [claims |-> claims, key |-> key, wellformed |-> TRUE]
NotAJwt == [jwt_encode([sub |-> None, user_id |-> None, exp |-> 0], "forged")
               EXCEPT !.wellformed = FALSE]

\* verify_token accepting expired tokens.
verify_token_IgnoresExpiry(token, t) ==
    IF ~token.wellformed \/ token.key /= secret_key
    THEN None
    ELSE Some([sub |-> token.claims.sub, user_id |-> token.claims.user_id])

\* core/security.py verify_token: jwt.decode raises JWTError for a string that
\* is no JWT, for a signature that does not verify under secret_key, and for
\* an exp claim earlier than the clock; each is caught and None returned.
verify_token(token, t) ==
    IF ~token.wellformed \/ token.key /= secret_key \/ token.claims.exp < t
    THEN None
    ELSE Some([sub |-> token.claims.sub, user_id |-> token.claims.user_id])

\* The bearer token a response's access_token is.
Bearer(access_token) ==
    jwt_encode([sub |-> Some(access_token.sub), user_id |-> Some(access_token.user_id),
                exp |-> access_token.exp], secret_key)

\* The times an access token presented now can have been issued at: a day
\* ago and earlier (expired by now), later, and now.
IssueTimes ==
    {t - (access_token_expire_minutes \div 60) : t \in 0..MaxTime} \cup {0}

\* The Authorization headers a request can carry: none, a string that is no
\* JWT, and tokens over every payload, signed under either key.
BearerTokens ==
    {NotAJwt} \cup
    {jwt_encode([sub |-> p.sub, user_id |-> p.user_id,
                 exp |-> t + (access_token_expire_minutes \div 60)], key) :
        p \in Payloads, t \in IssueTimes, key \in Keys}
Credentials == {None} \cup {Some(token) : token \in BearerTokens}

\* ------------------------------------------------------------- dependencies
MissingToken == HTTPError(401, "MISSING_TOKEN", "Authentication token is required")
InvalidToken == HTTPError(401, "INVALID_TOKEN", "Invalid or expired token")
InactiveUser == HTTPError(403, "INACTIVE_USER", "User account is inactive")
UnverifiedUser == HTTPError(403, "UNVERIFIED_USER", "User email is not verified")

\* The dependency resolving the user without the service's is_active test.
dependencies_get_current_user_NoActiveTest(store, credentials, t) ==
    IF credentials = None
    THEN [user |-> None, error |-> Some(MissingToken)]
    ELSE LET payload == verify_token(credentials[1], t) IN
         IF payload = None
         THEN [user |-> None, error |-> Some(InvalidToken)]
         ELSE get_current_user_IgnoresActive(store, payload[1])

\* dependencies.py get_current_user, lines 12-72.  The service's
\* get_current_user raises nothing but HTTPException here, which line 57
\* re-raises.
dependencies_get_current_user(store, credentials, t) ==
    IF credentials = None
    THEN [user |-> None, error |-> Some(MissingToken)]
    ELSE LET payload == verify_token(credentials[1], t) IN
         IF payload = None
         THEN [user |-> None, error |-> Some(InvalidToken)]
         ELSE get_current_user(store, payload[1])

\* dependencies.py get_current_active_user, lines 75-93
get_current_active_user(store, credentials, t) ==
    LET current_user == dependencies_get_current_user(store, credentials, t) IN
    IF current_user.user = None THEN current_user
    ELSE IF ~store[current_user.user[1]].is_active
         THEN [user |-> None, error |-> Some(InactiveUser)]
         ELSE current_user

\* get_current_verified_user letting unverified users through.
get_current_verified_user_NoVerifiedGate(store, credentials, t) ==
    get_current_active_user(store, credentials, t)

\* dependencies.py get_current_verified_user, lines 96-114
get_current_verified_user(store, credentials, t) ==
    LET current_user == get_current_active_user(store, credentials, t) IN
    IF current_user.user = None THEN current_user
    ELSE IF ~store[current_user.user[1]].is_verified
         THEN [user |-> None, error |-> Some(UnverifiedUser)]
         ELSE current_user

\* -------------------------------------------------------------------- tasks
Names == {"Chores", "Errands"}

\* models/task_template.py TaskTemplate and models/task_item.py TaskItem, as
\* the services construct them.  created_at is set once and changed by no
\* handler; it is left out.  template_id is None, or Some(id string).
TaskTemplate(name, user_id, t) == [name |-> name, user_id |-> user_id, updated_at |-> t]
TaskItem(name, user_id, template_id, t) ==
    [name |-> name, user_id |-> user_id, template_id |-> template_id, updated_at |-> t]

\* Document.get on a collection rows are deleted from: the id of the stored
\* row, None for an id that parses to no stored row or does not parse (the
\* services catch what get raises and go on with None).
Document_get(collection, id_str) ==
    IF /\ ParseId(id_str) /= None
       /\ ParseId(id_str)[1] \in 1..Len(collection)
       /\ collection[ParseId(id_str)[1]] /= None
    THEN Some(ParseId(id_str)[1]) ELSE None

\* Document.delete(), and find(query).to_list(): the ids of the rows whose
\* fields equal the query's, in the order of insertion.
Document_delete(collection, id) == [collection EXCEPT ![id] = None]
find(collection, query) ==
    SelectSeq([id \in 1..Len(collection) |-> id],
              LAMBDA id : /\ collection[id] /= None
                          /\ \A field \in DOMAIN query :
                                collection[id][1][field] = query[field])

\* The lookup ignoring the owner.
get_owned_AnyOwner(collection, id_str, user_id) == Document_get(collection, id_str)

\* The lookup every by-id handler opens with (task_template_service.py lines
\* 60-65): the row, or None when it is absent or another user's.
get_owned(collection, id_str, user_id) ==
    LET found == Document_get(collection, id_str) IN
    IF found = None \/ collection[found[1]][1].user_id /= user_id THEN None ELSE found

TemplateNotFound == HTTPError(404, "TEMPLATE_NOT_FOUND", "Task template not found")
ItemNotFound == HTTPError(404, "ITEM_NOT_FOUND", "Task item not found")
\* create_item, get_user_items and update_item on a template_id not the caller's
InvalidTemplate == HTTPError(400, "TEMPLATE_NOT_FOUND", "Template not found")

TaskTemplateResponse(status, id, template) ==
    [status |-> status, code |-> "OK", id |-> IdStr(id),
     name |-> template.name, updated_at |-> template.updated_at]
TaskItemResponse(status, id, item) ==
    [status |-> status, code |-> "OK", id |-> IdStr(id), name |-> item.name,
     template_id |-> item.template_id, updated_at |-> item.updated_at]
\* TaskTemplatesListResponse and TaskItemsListResponse
ListResponse(rows, total, skip, limit) ==
    [status |-> 200, code |-> "OK", rows |-> rows, total |-> total,
     skip |-> skip, limit |-> limit]

\* What a task handler comes to: its response and the two collections.
TaskOutcome(response, tpls, its) == [response |-> response, templates |-> tpls, items |-> its]

\* .limit(limit) with the skip left out.
Page_IgnoresSkip(ids, skip, limit) ==
    SubSeq(ids, 1, IF Len(ids) < limit THEN Len(ids) ELSE limit)

\* .skip(skip).limit(limit) of a result list
Page(ids, skip, limit) ==
    SubSeq(ids, skip + 1, IF Len(ids) < skip + limit THEN Len(ids) ELSE skip + limit)

\* task_template_service.py create_template, lines 21-34
create_template(tpls, its, name, user_id, t) ==
    TaskOutcome(TaskTemplateResponse(201, Len(tpls) + 1, TaskTemplate(name, user_id, t)),
                insert(tpls, Some(TaskTemplate(name, user_id, t))), its)

\* get_user_templates with a query that names no owner.
get_user_templates_AllOwners(tpls, its, user_id, skip, limit) ==
    LET found == find(tpls, <<>>) IN
    TaskOutcome(ListResponse([i \in 1..Len(Page(found, skip, limit)) |->
                                 TaskTemplateResponse(200, Page(found, skip, limit)[i],
                                                      tpls[Page(found, skip, limit)[i]][1])],
                             Len(found), skip, limit),
                tpls, its)

\* task_template_service.py get_user_templates, lines 36-56
get_user_templates(tpls, its, user_id, skip, limit) ==
    LET found == find(tpls, [user_id |-> user_id]) IN
    TaskOutcome(ListResponse([i \in 1..Len(Page(found, skip, limit)) |->
                                 TaskTemplateResponse(200, Page(found, skip, limit)[i],
                                                      tpls[Page(found, skip, limit)[i]][1])],
                             Len(found), skip, limit),
                tpls, its)

\* task_template_service.py get_template, lines 58-87
get_template(tpls, its, template_id, user_id) ==
    LET template == get_owned(tpls, template_id, user_id) IN
    IF template = None
    THEN TaskOutcome(TemplateNotFound, tpls, its)
    ELSE TaskOutcome(TaskTemplateResponse(200, template[1], tpls[template[1]][1]), tpls, its)

\* update_template saving, with the timestamp, whether or not a name came.
update_template_AlwaysSaves(tpls, its, template_id, name, user_id, t) ==
    LET existing_template == get_owned(tpls, template_id, user_id) IN
    IF existing_template = None
    THEN TaskOutcome(TemplateNotFound, tpls, its)
    ELSE LET updated == [tpls[existing_template[1]][1] EXCEPT
                            !.name = IF name /= None THEN name[1] ELSE @,
                            !.updated_at = t]
         IN TaskOutcome(TaskTemplateResponse(200, existing_template[1], updated),
                        save(tpls, existing_template[1], Some(updated)), its)

\* task_template_service.py update_template, lines 89-133
update_template(tpls, its, template_id, name, user_id, t) ==
    LET existing_template == get_owned(tpls, template_id, user_id) IN
    IF existing_template = None
    THEN TaskOutcome(TemplateNotFound, tpls, its)
    ELSE IF name /= None
         THEN LET updated == [tpls[existing_template[1]][1] EXCEPT
                                 !.name = name[1], !.updated_at = t]
              IN TaskOutcome(TaskTemplateResponse(200, existing_template[1], updated),
                             save(tpls, existing_template[1], Some(updated)), its)
         ELSE TaskOutcome(TaskTemplateResponse(200, existing_template[1],
                                               tpls[existing_template[1]][1]), tpls, its)

RECURSIVE delete_all(_, _)
\* `for item in items: await item.delete()`
delete_all(collection, ids) ==
    IF ids = <<>> THEN collection
    ELSE delete_all(Document_delete(collection, Head(ids)), Tail(ids))

\* task_template_service.py delete_template, lines 135-174
delete_template(tpls, its, template_id, user_id) ==
    LET template == get_owned(tpls, template_id, user_id) IN
    IF template = None
    THEN TaskOutcome(TemplateNotFound, tpls, its)
    ELSE LET found == find(its, [template_id |-> Some(template_id), user_id |-> user_id])
         IN TaskOutcome([status |-> 200, code |-> "OK",
                         message |-> "Template deleted successfully",
                         deleted_items_count |-> Len(found)],
                        Document_delete(tpls, template[1]), delete_all(its, found))

\* create_item with the template validation left out.
create_item_Unvalidated(tpls, its, name, template_id, user_id, t) ==
    TaskOutcome(TaskItemResponse(201, Len(its) + 1, TaskItem(name, user_id, template_id, t)),
                tpls, insert(its, Some(TaskItem(name, user_id, template_id, t))))

\* task_item_service.py create_item, lines 21-60.  `if item_data.template_id`
\* is false for None and for the empty string <<>>.
create_item(tpls, its, name, template_id, user_id, t) ==
    IF ~Missing(template_id, <<>>) /\ get_owned(tpls, template_id[1], user_id) = None
    THEN TaskOutcome(InvalidTemplate, tpls, its)
    ELSE TaskOutcome(TaskItemResponse(201, Len(its) + 1, TaskItem(name, user_id, template_id, t)),
                     tpls, insert(its, Some(TaskItem(name, user_id, template_id, t))))

\* task_item_service.py get_user_items, lines 62-117
get_user_items(tpls, its, user_id, template_id, skip, limit) ==
    IF ~Missing(template_id, <<>>) /\ get_owned(tpls, template_id[1], user_id) = None
    THEN TaskOutcome(InvalidTemplate, tpls, its)
    ELSE LET found == find(its, IF Missing(template_id, <<>>)
                             THEN [user_id |-> user_id]
                             ELSE [user_id |-> user_id, template_id |-> template_id])
         IN TaskOutcome(ListResponse([i \in 1..Len(Page(found, skip, limit)) |->
                                         TaskItemResponse(200, Page(found, skip, limit)[i],
                                                          its[Page(found, skip, limit)[i]][1])],
                                     Len(found), skip, limit),
                        tpls, its)

\* task_item_service.py get_item, lines 119-149
get_item(tpls, its, item_id, user_id) ==
    LET item == get_owned(its, item_id, user_id) IN
    IF item = None
    THEN TaskOutcome(ItemNotFound, tpls, its)
    ELSE TaskOutcome(TaskItemResponse(200, item[1], its[item[1]][1]), tpls, its)

\* update_item storing the template_id as it came, the empty string included.
update_item_StoresEmpty(tpls, its, item_id, name, template_id, user_id, t) ==
    LET existing_item == get_owned(its, item_id, user_id) IN
    IF existing_item = None
    THEN TaskOutcome(ItemNotFound, tpls, its)
    ELSE IF ~Missing(template_id, <<>>) /\ get_owned(tpls, template_id[1], user_id) = None
    THEN TaskOutcome(InvalidTemplate, tpls, its)
    ELSE LET old == its[existing_item[1]][1]
             named == IF name /= None THEN [old EXCEPT !.name = name[1]] ELSE old
             linked == IF template_id /= None
                       THEN [named EXCEPT !.template_id = template_id]
                       ELSE named
             updated == name /= None \/ template_id /= None
             new == IF updated THEN [linked EXCEPT !.updated_at = t] ELSE linked
         IN TaskOutcome(TaskItemResponse(200, existing_item[1], new), tpls,
                        IF updated THEN save(its, existing_item[1], Some(new)) ELSE its)

\* update_item validating the template before it looks the item up.
update_item_TemplateFirst(tpls, its, item_id, name, template_id, user_id, t) ==
    LET existing_item == get_owned(its, item_id, user_id) IN
    IF ~Missing(template_id, <<>>) /\ get_owned(tpls, template_id[1], user_id) = None
    THEN TaskOutcome(InvalidTemplate, tpls, its)
    ELSE IF existing_item = None
    THEN TaskOutcome(ItemNotFound, tpls, its)
    ELSE LET old == its[existing_item[1]][1]
             named == IF name /= None THEN [old EXCEPT !.name = name[1]] ELSE old
             linked == IF template_id /= None
                       THEN [named EXCEPT !.template_id =
                                IF template_id[1] /= <<>> THEN template_id ELSE None]
                       ELSE named
             updated == name /= None \/ template_id /= None
             new == IF updated THEN [linked EXCEPT !.updated_at = t] ELSE linked
         IN TaskOutcome(TaskItemResponse(200, existing_item[1], new), tpls,
                        IF updated THEN save(its, existing_item[1], Some(new)) ELSE its)

\* task_item_service.py update_item, lines 151-225
update_item(tpls, its, item_id, name, template_id, user_id, t) ==
    LET existing_item == get_owned(its, item_id, user_id) IN
    IF existing_item = None
    THEN TaskOutcome(ItemNotFound, tpls, its)
    ELSE IF ~Missing(template_id, <<>>) /\ get_owned(tpls, template_id[1], user_id) = None
    THEN TaskOutcome(InvalidTemplate, tpls, its)
    ELSE LET old == its[existing_item[1]][1]
             named == IF name /= None THEN [old EXCEPT !.name = name[1]] ELSE old
             linked == IF template_id /= None
                       THEN [named EXCEPT !.template_id =
                                IF template_id[1] /= <<>> THEN template_id ELSE None]
                       ELSE named
             updated == name /= None \/ template_id /= None
             new == IF updated THEN [linked EXCEPT !.updated_at = t] ELSE linked
         IN TaskOutcome(TaskItemResponse(200, existing_item[1], new), tpls,
                        IF updated THEN save(its, existing_item[1], Some(new)) ELSE its)

\* task_item_service.py delete_item, lines 227-257
delete_item(tpls, its, item_id, user_id) ==
    LET item == get_owned(its, item_id, user_id) IN
    IF item = None
    THEN TaskOutcome(ItemNotFound, tpls, its)
    ELSE TaskOutcome([status |-> 200, code |-> "OK",
                      message |-> "Task item deleted successfully"],
                     tpls, Document_delete(its, item[1]))

\* ----------------------------------------------- task handlers, await by await
\* A task handler suspended at an await: the handler, the database call it
\* is about to make, the row it read (0 before an insert), the caller, the
\* document it holds, the update's arguments, and the items delete_template
\* found and has yet to delete, with their count.
TaskRequest(op, at, id, user_id, doc, name, template_id, found, count) ==
    [op |-> op, at |-> at, id |-> id, user_id |-> user_id, doc |-> doc, name |-> name,
     template_id |-> template_id, found |-> found, count |-> count]

\* What a handler's run from one database call to the next comes to.
TaskStep(response, tpls, its, request) ==
    [response |-> response, templates |-> tpls, items |-> its, request |-> request]

\* delete_template, lines 138-158: TaskTemplate.get and the ownership test
delete_template_get(tpls, its, template_id, user_id) ==
    LET template == get_owned(tpls, template_id, user_id) IN
    IF template = None
    THEN TaskStep(TemplateNotFound, tpls, its, None)
    ELSE TaskStep(Pending, tpls, its,
                  Some(TaskRequest("delete_template", "find", template[1], user_id,
                                   None, None, None, <<>>, 0)))

\* delete_template deleting the template before its items.
delete_template_find_TemplateFirst(tpls, its, r) ==
    LET found == find(its, [template_id |-> Some(IdStr(r.id)), user_id |-> r.user_id]) IN
    TaskStep(Pending, Document_delete(tpls, r.id), its,
             Some([r EXCEPT !.at = IF found = <<>> THEN "delete" ELSE "delete_item",
                            !.found = found, !.count = Len(found)]))

\* delete_template finding every item of the caller.
delete_template_find_AllOfCaller(tpls, its, r) ==
    LET found == find(its, [user_id |-> r.user_id]) IN
    TaskStep(Pending, tpls, its,
             Some([r EXCEPT !.at = IF found = <<>> THEN "delete" ELSE "delete_item",
                            !.found = found, !.count = Len(found)]))

\* delete_template, lines 161-162: the items of the template, and their count
delete_template_find(tpls, its, r) ==
    LET found == find(its, [template_id |-> Some(IdStr(r.id)), user_id |-> r.user_id]) IN
    TaskStep(Pending, tpls, its,
             Some([r EXCEPT !.at = IF found = <<>> THEN "delete" ELSE "delete_item",
                            !.found = found, !.count = Len(found)]))

\* delete_template, lines 163-164: one `await item.delete()`
delete_template_item(tpls, its, r) ==
    TaskStep(Pending, tpls, Document_delete(its, Head(r.found)),
             Some([r EXCEPT !.at = IF Tail(r.found) = <<>> THEN "delete" ELSE "delete_item",
                            !.found = Tail(r.found)]))

\* delete_template, lines 167-174: `await template.delete()` and the response
delete_template_delete(tpls, its, r) ==
    TaskStep([status |-> 200, code |-> "OK", message |-> "Template deleted successfully",
              deleted_items_count |-> r.count],
             Document_delete(tpls, r.id), its, None)

\* create_item, lines 24-52 up to the second await: with a template_id, the
\* template's lookup; without one, the insert and the response.
create_item_get(tpls, its, name, template_id, user_id, t) ==
    IF Missing(template_id, <<>>)
    THEN TaskStep(TaskItemResponse(201, Len(its) + 1, TaskItem(name, user_id, template_id, t)),
                  tpls, insert(its, Some(TaskItem(name, user_id, template_id, t))), None)
    ELSE IF get_owned(tpls, template_id[1], user_id) = None
    THEN TaskStep(InvalidTemplate, tpls, its, None)
    ELSE TaskStep(Pending, tpls, its,
                  Some(TaskRequest("create_item", "insert", 0, user_id,
                                   Some(TaskItem(name, user_id, template_id, t)),
                                   None, None, <<>>, 0)))

\* create_item, lines 52-60: `await item.insert()` and the response
create_item_insert(tpls, its, r) ==
    TaskStep(TaskItemResponse(201, Len(its) + 1, r.doc[1]), tpls, insert(its, r.doc), None)

\* update_item, lines 205-225, on the document the handler holds: the
\* assignments, and the save of the whole document when a field was provided.
update_item_save(tpls, its, r, t) ==
    LET named == IF r.name /= None THEN [r.doc[1] EXCEPT !.name = r.name[1]] ELSE r.doc[1]
        linked == IF r.template_id /= None
                  THEN [named EXCEPT !.template_id =
                           IF r.template_id[1] /= <<>> THEN r.template_id ELSE None]
                  ELSE named
        updated == r.name /= None \/ r.template_id /= None
        new == IF updated THEN [linked EXCEPT !.updated_at = t] ELSE linked
    IN TaskStep(TaskItemResponse(200, r.id, new), tpls,
                IF updated THEN save(its, r.id, Some(new)) ELSE its, None)

\* update_item, lines 159-182: TaskItem.get and the ownership test.  With a
\* template_id to validate the handler goes on to TaskTemplate.get; with a
\* field to write, to save(); with neither it answers.
update_item_get(tpls, its, item_id, name, template_id, user_id, t) ==
    LET existing_item == get_owned(its, item_id, user_id) IN
    IF existing_item = None
    THEN TaskStep(ItemNotFound, tpls, its, None)
    ELSE LET r == TaskRequest("update_item",
                              IF ~Missing(template_id, <<>>) THEN "get_template" ELSE "save",
                              existing_item[1], user_id, its[existing_item[1]],
                              name, template_id, <<>>, 0)
         IN IF name = None /\ template_id = None
            THEN update_item_save(tpls, its, r, t)
            ELSE TaskStep(Pending, tpls, its, Some(r))

\* update_item, lines 183-203: TaskTemplate.get and the ownership test
update_item_get_template(tpls, its, r) ==
    IF get_owned(tpls, r.template_id[1], r.user_id) = None
    THEN TaskStep(InvalidTemplate, tpls, its, None)
    ELSE TaskStep(Pending, tpls, its, Some([r EXCEPT !.at = "save"]))

\* ---------------------------------------------------------------- endpoints
\* Each takes `current_user: User = Depends(get_current_verified_user)`: the
\* handler runs with the resolved user, or the dependency's error is the
\* response.

\* api/v1/endpoints/auth.py GET /auth/me
me(store, tpls, its, credentials, t) ==
    LET current_user == get_current_verified_user(store, credentials, t) IN
    IF current_user.user = None
    THEN TaskOutcome(current_user.error[1], tpls, its)
    ELSE TaskOutcome([status |-> 200, code |-> "OK", id |-> IdStr(current_user.user[1]),
                      email |-> store[current_user.user[1]].email,
                      is_active |-> store[current_user.user[1]].is_active,
                      is_verified |-> store[current_user.user[1]].is_verified,
                      updated_at |-> store[current_user.user[1]].updated_at], tpls, its)

\* api/v1/endpoints/task_templates.py
get_task_templates(store, tpls, its, credentials, t, skip, limit) ==
    LET current_user == get_current_verified_user(store, credentials, t) IN
    IF current_user.user = None
    THEN TaskOutcome(current_user.error[1], tpls, its)
    ELSE get_user_templates(tpls, its, IdStr(current_user.user[1]), skip, limit)
create_task_template(store, tpls, its, credentials, t, name) ==
    LET current_user == get_current_verified_user(store, credentials, t) IN
    IF current_user.user = None
    THEN TaskOutcome(current_user.error[1], tpls, its)
    ELSE create_template(tpls, its, name, IdStr(current_user.user[1]), t)
get_task_template(store, tpls, its, credentials, t, template_id) ==
    LET current_user == get_current_verified_user(store, credentials, t) IN
    IF current_user.user = None
    THEN TaskOutcome(current_user.error[1], tpls, its)
    ELSE get_template(tpls, its, template_id, IdStr(current_user.user[1]))
update_task_template(store, tpls, its, credentials, t, template_id, name) ==
    LET current_user == get_current_verified_user(store, credentials, t) IN
    IF current_user.user = None
    THEN TaskOutcome(current_user.error[1], tpls, its)
    ELSE update_template(tpls, its, template_id, name, IdStr(current_user.user[1]), t)
delete_task_template(store, tpls, its, credentials, t, template_id) ==
    LET current_user == get_current_verified_user(store, credentials, t) IN
    IF current_user.user = None
    THEN TaskOutcome(current_user.error[1], tpls, its)
    ELSE delete_template(tpls, its, template_id, IdStr(current_user.user[1]))

\* api/v1/endpoints/task_items.py
get_task_items(store, tpls, its, credentials, t, template_id, skip, limit) ==
    LET current_user == get_current_verified_user(store, credentials, t) IN
    IF current_user.user = None
    THEN TaskOutcome(current_user.error[1], tpls, its)
    ELSE get_user_items(tpls, its, IdStr(current_user.user[1]), template_id, skip, limit)
create_task_item(store, tpls, its, credentials, t, name, template_id) ==
    LET current_user == get_current_verified_user(store, credentials, t) IN
    IF current_user.user = None
    THEN TaskOutcome(current_user.error[1], tpls, its)
    ELSE create_item(tpls, its, name, template_id, IdStr(current_user.user[1]), t)
get_task_item(store, tpls, its, credentials, t, item_id) ==
    LET current_user == get_current_verified_user(store, credentials, t) IN
    IF current_user.user = None
    THEN TaskOutcome(current_user.error[1], tpls, its)
    ELSE get_item(tpls, its, item_id, IdStr(current_user.user[1]))
update_task_item(store, tpls, its, credentials, t, item_id, name, template_id) ==
    LET current_user == get_current_verified_user(store, credentials, t) IN
    IF current_user.user = None
    THEN TaskOutcome(current_user.error[1], tpls, its)
    ELSE update_item(tpls, its, item_id, name, template_id,
                     IdStr(current_user.user[1]), t)
delete_task_item(store, tpls, its, credentials, t, item_id) ==
    LET current_user == get_current_verified_user(store, credentials, t) IN
    IF current_user.user = None
    THEN TaskOutcome(current_user.error[1], tpls, its)
    ELSE delete_item(tpls, its, item_id, IdStr(current_user.user[1]))

\* ------------------------------------------------------------------ steps
InFlight(op) == {r \in BagToSet(inflight) : r.op = op}

\* A handler's first run: it answers at once, or is suspended at its await.
\* generate_random_token is called on the suspending paths only.
Run(out) ==
    /\ users' = out.users
    /\ IF out.request = None
       THEN UNCHANGED <<inflight, issued>>
       ELSE /\ BagCardinality(inflight) < Cardinality(Slots)
            /\ inflight' = inflight (+) SetToBag({out.request[1]})
            /\ issued' = IF out.request[1].op \in {"register", "forgot_password"}
                         THEN issued + 1 ELSE issued
            /\ out.request[1].op \in {"register", "forgot_password"} => issued < MaxTokens
            /\ out.request[1].op = "register" =>
                   Len(users) + Cardinality(InFlight("register")) < MaxUsers
    /\ UNCHANGED <<now, templates, items>>

\* A suspended handler's resumption: the write, and the response.
Resume(r, out) ==
    /\ users' = out.users
    /\ inflight' = inflight (-) SetToBag({r})
    /\ UNCHANGED <<now, issued, templates, items>>

Register(email, password) == Run(register_user(users, email, password, now, issued + 1))
RegisterInsert(r, sent) ==
    r \in InFlight("register") /\ Resume(r, register_user_insert(users, r, sent))

VerifyEmail(token) == Run(verify_email(users, token, now))
VerifyEmailSave(r, sent) ==
    r \in InFlight("verify_email") /\ Resume(r, verify_email_save(users, r, now, sent))

Login(email, password) ==
    /\ login_user(users, email, password, now).status \in {200, 401, 403}
    /\ UNCHANGED vars

ForgotPassword(email) == Run(forgot_password(users, email, now, issued + 1))
ForgotPasswordSave(r, sent) ==
    r \in InFlight("forgot_password") /\ Resume(r, forgot_password_save(users, r, sent))

ResetPassword(token, new_password) == Run(reset_password(users, token, new_password, now))
ResetPasswordSave(r) ==
    r \in InFlight("reset_password") /\ Resume(r, reset_password_save(users, r))

ResolveSession(token_payload) ==
    /\ get_current_user(users, token_payload).user /= None
          \/ get_current_user(users, token_payload).error /= None
    /\ UNCHANGED vars

Tick ==
    /\ now < MaxTime
    /\ now' = now + 1
    /\ UNCHANGED <<users, issued, inflight, templates, items>>

\* ------------------------------------------------------------------- Init
Init ==
    /\ users = <<>>
    /\ now = 0
    /\ issued = 0
    /\ inflight = EmptyBag
    /\ templates = <<>>
    /\ items = <<>>

Next ==
    \/ \E email \in Emails, password \in Passwords : Register(email, password)
    \/ \E r \in BagToSet(inflight), sent \in BOOLEAN : RegisterInsert(r, sent)
    \/ \E token \in 1..MaxTokens : VerifyEmail(token)
    \/ \E r \in BagToSet(inflight), sent \in BOOLEAN : VerifyEmailSave(r, sent)
    \/ \E email \in Emails, password \in Passwords : Login(email, password)
    \/ \E email \in Emails : ForgotPassword(email)
    \/ \E r \in BagToSet(inflight), sent \in BOOLEAN : ForgotPasswordSave(r, sent)
    \/ \E token \in 1..MaxTokens, new_password \in Passwords : ResetPassword(token, new_password)
    \/ \E r \in BagToSet(inflight) : ResetPasswordSave(r)
    \/ \E token_payload \in Payloads : ResolveSession(token_payload)
    \/ Tick

Spec == Init /\ [][Next]_vars

\* The service started on a store that already holds a user, as the tests'
\* users_factory(verified, active) leaves it: is_active is written by no
\* handler, so a disabled account is in the store only if it was put there.
SeedUser(active, verified) ==
    [User("a@x.io", get_password_hash(PwAbcd1234), 1, 0) EXCEPT
        !.is_active = active,
        !.is_verified = verified,
        !.email_verification_token = IF verified THEN None ELSE Some(1)]

InitSeeded ==
    /\ \E active \in BOOLEAN, verified \in BOOLEAN : users = <<SeedUser(active, verified)>>
    /\ now = 0
    /\ issued = 1
    /\ inflight = EmptyBag
    /\ templates = <<>>
    /\ items = <<>>

SpecSeeded == InitSeeded /\ [][Next]_vars

\* ------------------------------------------------------------- task requests
\* A task request's step: the endpoint runs to its response.
Serve(out) ==
    /\ templates' = out.templates
    /\ items' = out.items
    /\ UNCHANGED <<users, now, issued, inflight>>

\* What the requests carry.  An id string that is no ObjectId is <<"x">>.
Sessions ==
    {None, Some(NotAJwt)} \cup
    {Some(Bearer(create_access_token([sub |-> users[id].email, user_id |-> IdStr(id)], 0))) :
        id \in 1..Len(users)}
TemplateIds == {IdStr(id) : id \in 1..MaxRows} \cup {<<"x">>}
ItemIds == {IdStr(id) : id \in 1..MaxRows} \cup {<<"x">>}
OptionalNames == {None} \cup {Some(name) : name \in Names}
OptionalTemplateIds == {None, Some(<<>>)} \cup {Some(id) : id \in TemplateIds}
Skips == 0..1
Limits == 1..MaxRows

Me(credentials) == Serve(me(users, templates, items, credentials, now))
GetTaskTemplates(credentials, skip, limit) ==
    Serve(get_task_templates(users, templates, items, credentials, now, skip, limit))
CreateTaskTemplate(credentials, name) ==
    /\ Len(templates) + Len(items) < MaxRows
    /\ Serve(create_task_template(users, templates, items, credentials, now, name))
GetTaskTemplate(credentials, template_id) ==
    Serve(get_task_template(users, templates, items, credentials, now, template_id))
UpdateTaskTemplate(credentials, template_id, name) ==
    Serve(update_task_template(users, templates, items, credentials, now, template_id, name))
DeleteTaskTemplate(credentials, template_id) ==
    Serve(delete_task_template(users, templates, items, credentials, now, template_id))
GetTaskItems(credentials, template_id, skip, limit) ==
    Serve(get_task_items(users, templates, items, credentials, now, template_id, skip, limit))
CreateTaskItem(credentials, name, template_id) ==
    /\ Len(templates) + Len(items) < MaxRows
    /\ Serve(create_task_item(users, templates, items, credentials, now, name, template_id))
GetTaskItem(credentials, item_id) ==
    Serve(get_task_item(users, templates, items, credentials, now, item_id))
UpdateTaskItem(credentials, item_id, name, template_id) ==
    Serve(update_task_item(users, templates, items, credentials, now, item_id, name, template_id))
DeleteTaskItem(credentials, item_id) ==
    Serve(delete_task_item(users, templates, items, credentials, now, item_id))

\* The task endpoints served over a store of two users, as the API tests'
\* fixtures leave it: b@x.io active and verified, a@x.io in every combination
\* of is_active and is_verified.  The task handlers read the clock only to
\* stamp updated_at; the requests of one behaviour are served at one reading.
InitTasks ==
    /\ \E active \in BOOLEAN, verified \in BOOLEAN :
           users = <<SeedUser(active, verified),
                     [SeedUser(TRUE, TRUE) EXCEPT !.email = "b@x.io"]>>
    /\ now \in 0..MaxTime
    /\ issued = 1
    /\ inflight = EmptyBag
    /\ templates = <<>>
    /\ items = <<>>

NextTasks ==
    \/ \E credentials \in Sessions : Me(credentials)
    \/ \E credentials \in Sessions, skip \in Skips, limit \in Limits :
           GetTaskTemplates(credentials, skip, limit)
    \/ \E credentials \in Sessions, name \in Names : CreateTaskTemplate(credentials, name)
    \/ \E credentials \in Sessions, template_id \in TemplateIds :
           GetTaskTemplate(credentials, template_id)
    \/ \E credentials \in Sessions, template_id \in TemplateIds, name \in OptionalNames :
           UpdateTaskTemplate(credentials, template_id, name)
    \/ \E credentials \in Sessions, template_id \in TemplateIds :
           DeleteTaskTemplate(credentials, template_id)
    \/ \E credentials \in Sessions, template_id \in OptionalTemplateIds,
          skip \in Skips, limit \in Limits :
           GetTaskItems(credentials, template_id, skip, limit)
    \/ \E credentials \in Sessions, name \in Names, template_id \in OptionalTemplateIds :
           CreateTaskItem(credentials, name, template_id)
    \/ \E credentials \in Sessions, item_id \in ItemIds : GetTaskItem(credentials, item_id)
    \/ \E credentials \in Sessions, item_id \in ItemIds, name \in OptionalNames,
          template_id \in OptionalTemplateIds :
           UpdateTaskItem(credentials, item_id, name, template_id)
    \/ \E credentials \in Sessions, item_id \in ItemIds : DeleteTaskItem(credentials, item_id)

SpecTasks == InitTasks /\ [][NextTasks]_vars

\* ------------------------------------------- task requests, await by await
AwaitingAt(op, at) == {r \in InFlight(op) : r.at = at}

\* A handler's run to its first await, and a suspended handler's next run.
Start(out) ==
    /\ templates' = out.templates
    /\ items' = out.items
    /\ IF out.request = None
       THEN UNCHANGED inflight
       ELSE /\ BagCardinality(inflight) < Cardinality(Slots)
            /\ inflight' = inflight (+) SetToBag({out.request[1]})
    /\ UNCHANGED <<users, now, issued>>
Continue(r, out) ==
    /\ templates' = out.templates
    /\ items' = out.items
    /\ inflight' = (inflight (-) SetToBag({r})) (+)
                   (IF out.request = None THEN EmptyBag ELSE SetToBag({out.request[1]}))
    /\ UNCHANGED <<users, now, issued>>

CreateTemplate(caller, name) ==
    /\ Len(templates) <= MaxTemplates
    /\ Start(TaskStep(create_template(templates, items, name, IdStr(caller), now).response,
                      create_template(templates, items, name, IdStr(caller), now).templates,
                      items, None))
DeleteTemplate(caller, template_id) ==
    Start(delete_template_get(templates, items, template_id, IdStr(caller)))
DeleteTemplateFind(r) ==
    r \in AwaitingAt("delete_template", "find") /\ Continue(r, delete_template_find(templates, items, r))
DeleteTemplateItem(r) ==
    /\ r \in AwaitingAt("delete_template", "delete_item")
    /\ Continue(r, delete_template_item(templates, items, r))
DeleteTemplateDelete(r) ==
    /\ r \in AwaitingAt("delete_template", "delete")
    /\ Continue(r, delete_template_delete(templates, items, r))
\* The process dies with a delete_template suspended: the request is gone and
\* nothing more of it is written.
DeleteTemplateCrash(r) ==
    /\ r \in InFlight("delete_template")
    /\ inflight' = inflight (-) SetToBag({r})
    /\ UNCHANGED <<users, now, issued, templates, items>>
CreateItem(caller, name, template_id) ==
    /\ Len(items) + Cardinality(InFlight("create_item")) <= MaxItems
    /\ Start(create_item_get(templates, items, name, template_id, IdStr(caller), now))
CreateItemInsert(r) ==
    r \in AwaitingAt("create_item", "insert") /\ Continue(r, create_item_insert(templates, items, r))
UpdateItem(caller, item_id, name, template_id) ==
    Start(update_item_get(templates, items, item_id, name, template_id, IdStr(caller), now))
UpdateItemGetTemplate(r) ==
    /\ r \in AwaitingAt("update_item", "get_template")
    /\ Continue(r, update_item_get_template(templates, items, r))
UpdateItemSave(r) ==
    /\ r \in AwaitingAt("update_item", "save")
    /\ Continue(r, update_item_save(templates, items, r, now))

\* The task services called by a@x.io, its handlers interleaved at every
\* await, on a store where b@x.io has left a template and an item of it.
InitCascade ==
    /\ users = <<SeedUser(TRUE, TRUE), [SeedUser(TRUE, TRUE) EXCEPT !.email = "b@x.io"]>>
    /\ now = 0
    /\ issued = 1
    /\ inflight = EmptyBag
    /\ templates = <<Some(TaskTemplate("Errands", IdStr(2), 0))>>
    /\ items = <<Some(TaskItem("Errands", IdStr(2), Some(IdStr(1)), 0))>>

\* The ids of the stored rows and of the rows a@x.io creates, and the
\* template ids a@x.io links items to: those of its own templates.
CascadeTemplateIds == {IdStr(id) : id \in 1..(MaxTemplates + 1)}
CascadeItemIds == {IdStr(id) : id \in 1..(MaxItems + 1)}
CascadeLinks == {Some(id) : id \in CascadeTemplateIds \ {IdStr(1)}}

NextCascade ==
    \/ CreateTemplate(1, "Chores")
    \/ \E template_id \in CascadeTemplateIds : DeleteTemplate(1, template_id)
    \/ \E r \in BagToSet(inflight) : DeleteTemplateFind(r)
    \/ \E r \in BagToSet(inflight) : DeleteTemplateItem(r)
    \/ \E r \in BagToSet(inflight) : DeleteTemplateDelete(r)
    \/ \E r \in BagToSet(inflight) : DeleteTemplateCrash(r)
    \/ \E template_id \in {None} \cup CascadeLinks : CreateItem(1, "Chores", template_id)
    \/ \E r \in BagToSet(inflight) : CreateItemInsert(r)
    \/ \E item_id \in CascadeItemIds, template_id \in CascadeLinks :
           UpdateItem(1, item_id, None, template_id)
    \/ \E r \in BagToSet(inflight) : UpdateItemGetTemplate(r)
    \/ \E r \in BagToSet(inflight) : UpdateItemSave(r)

SpecCascade == InitCascade /\ [][NextCascade]_vars

\* ================================================================== claims
Ids == 1..Len(users)
StrongPasswords == {pw \in Passwords : validate_password(pw).ok}
Stored(store, email) == \E id \in 1..Len(store) : store[id].email = email
Payload(access_token) == [sub |-> Some(access_token.sub), user_id |-> Some(access_token.user_id)]

\* What Login with the correct password answers for user id of a store, and
\* the step that makes a user verified.
C1_LoginAfter(store, id, t) ==
    \A pw \in Passwords :
        verify_password(pw, store[id].password_hash) =>
            LET resp == login_user(store, store[id].email, pw, t) IN
            IF store[id].is_verified
            THEN /\ resp.code = "OK"
                 /\ resp.access_token /= None
                 /\ resp.access_token[1].sub = store[id].email
                 /\ resp.access_token[1].user_id = IdStr(id)
                 /\ get_current_user(store, Payload(resp.access_token[1])).user = Some(id)
            ELSE resp = EmailNotVerified

C1_VerifiedBy(id) ==
    \E r \in InFlight("verify_email") :
        /\ r.id = id
        /\ users[id].email_verification_token /= None
        /\ users' = verify_email_save(users, r, now, TRUE).users

\* C1: for a user created by Register, Login with the correct password fails
\* with EmailNotVerifiedError as long as the user is unverified; the user
\* becomes verified only by the save of a VerifyEmail that found the user by
\* the verification token; and from then on Login with the correct password
\* succeeds with a token whose claims (sub = email, user_id = id) resolve,
\* through get_current_user, to that same user.
C1_LoginOnlyAfterVerifyEmail ==
    [][\A id \in 1..Len(users') :
          /\ C1_LoginAfter(users', id, now')
          /\ (users'[id].is_verified /\ (id > Len(users) \/ ~users[id].is_verified))
                => (id <= Len(users) /\ C1_VerifiedBy(id))
          /\ (id <= Len(users) /\ users[id].is_verified) => users'[id].is_verified]_vars

C1_Witness ==
    \E id \in Ids :
        /\ users[id].is_verified
        /\ login_user(users, users[id].email, PwAbcd1234, now).code = "OK"
        /\ \E other \in Ids : login_user(users, users[other].email, PwAbcd1234, now) = EmailNotVerified

\* C2: Register called twice in sequence with the same email: the first call
\* succeeds; the second fails with EMAIL_ALREADY_EXISTS (409), creates no user
\* and leaves the store as it was.
C2_SecondRegisterConflicts ==
    \A email \in Emails, pw \in Passwords, pw2 \in Passwords :
        /\ Stored(users, email) =>
              LET out == register_user(users, email, pw, now, issued + 1) IN
              /\ out.response = EmailAlreadyExists
              /\ out.response.status = 409
              /\ out.users = users
              /\ out.request = None
        /\ (~Stored(users, email) /\ validate_password(pw).ok) =>
              LET first == register_user(users, email, pw, now, issued + 1) IN
              /\ first.request /= None
              /\ LET done == register_user_insert(first.users, first.request[1], TRUE)
                     second == register_user(done.users, email, pw2, now, issued + 2)
                 IN /\ done.response.code = "OK"
                    /\ Stored(done.users, email)
                    /\ second.response = EmailAlreadyExists
                    /\ second.users = done.users
                    /\ second.request = None

C2_Witness ==
    /\ Stored(users, "a@x.io")
    /\ ~Stored(users, "b@x.io")
    /\ register_user(users, "a@x.io", PwAbcd1234, now, issued + 1).response.code
          = "EMAIL_ALREADY_EXISTS"

\* C3: when two Register calls with the same email both pass the existence
\* check, the insert that comes second is refused by the unique index and that
\* call answers ConflictError (EMAIL_ALREADY_EXISTS).
C3_DuplicateInsertIsConflict ==
    \A r \in InFlight("register"), sent \in BOOLEAN :
        ~UniqueIndexAllows(users, r.user.email) =>
            register_user_insert(users, r, sent).response = EmailAlreadyExists

C5_RegisterPersistsOneUser ==
    \A r \in InFlight("register"), sent \in BOOLEAN :
        LET out == register_user_insert(users, r, sent) IN
        out.response.code = "OK" =>
            /\ Len(out.users) = Len(users) + 1
            /\ SubSeq(out.users, 1, Len(users)) = users
            /\ out.users[Len(out.users)].is_active
            /\ ~out.users[Len(out.users)].is_verified
            /\ out.users[Len(out.users)].email_verification_token /= None
            /\ out.users[Len(out.users)].email = r.user.email
            /\ out.response.message /= ""
            /\ out.response.user_id /= None
            /\ get(out.users, out.response.user_id[1]) = Some(Len(out.users))
            /\ out.response.access_token = None
            /\ out.response.token_type = None

C5_Witness ==
    /\ Len(users) = 1
    /\ \E r \in InFlight("register") :
          register_user_insert(users, r, FALSE).response.code = "OK"

\* C6: Login with an existing email and the matching password returns an
\* access token only if the user is active and verified; it fails with
\* AccountDisabledError when is_active is false, whatever is_verified is, and
\* with EmailNotVerifiedError when the user is active and unverified.
C6_LoginGates ==
    \A id \in Ids, pw \in Passwords :
        verify_password(pw, users[id].password_hash) =>
            LET resp == login_user(users, users[id].email, pw, now) IN
            /\ (resp.access_token /= None) <=> (users[id].is_active /\ users[id].is_verified)
            /\ ~users[id].is_active => resp = AccountDisabled
            /\ (users[id].is_active /\ ~users[id].is_verified) => resp = EmailNotVerified
            /\ (users[id].is_active /\ users[id].is_verified) => resp.code = "OK"

C6_Witness ==
    /\ Len(users) = 2
    /\ ~users[1].is_active /\ ~users[1].is_verified
    /\ login_user(users, users[1].email, PwAbcd1234, now) = AccountDisabled
    /\ users[2].is_active /\ users[2].is_verified

\* The two ways of Login with credentials that are not valid.
C7_NoUser(email) == ~Stored(users, email)
C7_WrongPassword(email, pw) ==
    \E id \in Ids : users[id].email = email /\ ~verify_password(pw, users[id].password_hash)

\* C7: Login answers with one and the same error (InvalidCredentialsError:
\* same status, code and message) for an email no user has and for a user's
\* email with a password that does not match, whatever the user's is_active
\* and is_verified are.
C7_SameInvalidCredentials ==
    \A e1 \in Emails, e2 \in Emails, pw1 \in Passwords, pw2 \in Passwords :
        /\ (C7_NoUser(e1) \/ C7_WrongPassword(e1, pw1)) =>
              login_user(users, e1, pw1, now).status = 401
        /\ ((C7_NoUser(e1) \/ C7_WrongPassword(e1, pw1))
              /\ (C7_NoUser(e2) \/ C7_WrongPassword(e2, pw2))) =>
              login_user(users, e1, pw1, now) = login_user(users, e2, pw2, now)

C7_Witness ==
    /\ Len(users) = 1
    /\ ~users[1].is_active
    /\ C7_WrongPassword("a@x.io", PwXyzw5678)
    /\ C7_NoUser("b@x.io")
    /\ login_user(users, "a@x.io", PwXyzw5678, now) = login_user(users, "b@x.io", PwAbcd1234, now)

\* The response of a ForgotPassword that runs to its end without interference.
C8_Answer(store, email, t, fresh, sent) ==
    LET out == forgot_password(store, email, t, fresh) IN
    IF out.request = None THEN out.response
    ELSE forgot_password_save(out.users, out.request[1], sent).response

\* C8: ForgotPassword answers with the same result (the same message, no user
\* id, no token) for every email: one no user has, an inactive user's, an
\* unverified user's, and an active and verified user's, there whether the
\* reset email went out or not.  The result is compared with the one for an
\* email on an empty store.
C8_ForgotPasswordUniform ==
    /\ \A email \in Emails, sent \in BOOLEAN :
          /\ C8_Answer(users, email, now, issued + 1, sent) = C8_Answer(<<>>, "a@x.io", 0, 1, TRUE)
          /\ C8_Answer(users, email, now, issued + 1, sent).user_id = None
          /\ C8_Answer(users, email, now, issued + 1, sent).access_token = None
    /\ \A r \in InFlight("forgot_password"), sent \in BOOLEAN :
          forgot_password_save(users, r, sent).response = C8_Answer(<<>>, "a@x.io", 0, 1, TRUE)

C8_Witness ==
    /\ Len(users) = 2
    /\ ~users[1].is_active
    /\ users[2].is_active /\ users[2].is_verified
    /\ forgot_password(users, users[2].email, now, issued + 1).request /= None
    /\ forgot_password(users, users[1].email, now, issued + 1).request = None

\* C9: ForgotPassword for an email that no user has, or an inactive user's, or
\* an unverified user's, changes no stored user (no reset token, no expiry,
\* updated_at as it was), writes nothing later, and sends no email.
C9_ForgotPasswordNoop ==
    \A email \in Emails :
        (\A id \in Ids : users[id].email = email =>
                            (~users[id].is_active \/ ~users[id].is_verified)) =>
            LET out == forgot_password(users, email, now, issued + 1) IN
            /\ out.users = users
            /\ out.request = None
            /\ out.mail = None

C9_Witness ==
    /\ Len(users) = 2
    /\ ~users[1].is_active /\ users[1].is_verified
    /\ users[2].is_active /\ ~users[2].is_verified

\* Two ForgotPassword calls in sequence for user id, then ResetPassword.
C10_ForgotTwice(id, pw) ==
    LET email == users[id].email
        out1 == forgot_password(users, email, now, issued + 1)
        s1 == forgot_password_save(out1.users, out1.request[1], TRUE).users
        out2 == forgot_password(s1, email, now, issued + 2)
        s2 == forgot_password_save(out2.users, out2.request[1], TRUE).users
    IN  /\ out1.request /= None /\ out2.request /= None
        /\ \A i \in Ids : users[i].password_reset_token /= Some(issued + 1)
        /\ s1[id].password_reset_token = Some(issued + 1)
        /\ s1[id].password_reset_expires = Some(now + password_reset_expire_hours)
        /\ s2[id].password_reset_token = Some(issued + 2)
        /\ s2[id].password_reset_expires = Some(now + password_reset_expire_hours)
        /\ \A i \in Ids \ {id} : s2[i] = users[i]
        /\ reset_password(s2, issued + 2, pw, now).request /= None
        /\ reset_password(s2, issued + 2, pw, now).request[1].id = id
        /\ reset_password(s2, issued + 1, pw, now).response = InvalidResetToken
        /\ users[id].password_reset_token /= None =>
              /\ reset_password(s1, users[id].password_reset_token[1], pw, now).response
                    = InvalidResetToken
              /\ reset_password(s2, users[id].password_reset_token[1], pw, now).response
                    = InvalidResetToken

\* C10: ForgotPassword for an active, verified user stores a token no user
\* holds, with expiry = now + password_reset_expire_hours, in place of any
\* token held before: after two ForgotPassword calls in sequence for the same
\* user ResetPassword accepts the second call's token and answers
\* InvalidTokenError to the first call's and to the one held before.
C10_ForgotPasswordOverwrites ==
    /\ \A id \in Ids, pw \in StrongPasswords :
          (users[id].is_active /\ users[id].is_verified) => C10_ForgotTwice(id, pw)
    /\ \A i \in Ids :
          users[i].password_reset_token /= None => users[i].password_reset_token[1] <= issued

C10_Witness ==
    /\ Len(users) = 1
    /\ users[1].password_reset_token = Some(3)
    /\ reset_password(users, 3, PwXyzw5678, now).request /= None
    /\ reset_password(users, 2, PwXyzw5678, now).response = InvalidResetToken

\* The reset tokens users hold, and the tokens no user holds.
ResetTokens == 1..(MaxTokens + 1)
Times == 0..(MaxTime + 2)
Holder(store, token) == find_one(store, "password_reset_token", Some(token))
Unheld(store) == {token \in ResetTokens : Holder(store, token) = None}

\* C11: ResetPassword with a stored token whose expiry is at or before the
\* current time fails with InvalidTokenError, with the code and message it has
\* for a token no user holds, and leaves the user's password hash, reset token
\* and expiry (the whole store) as they were.
C11_ExpiredLikeUnknown ==
    \A id \in Ids, pw \in Passwords, t \in Times :
        (/\ users[id].password_reset_token /= None
         /\ users[id].password_reset_expires /= None
         /\ users[id].password_reset_expires[1] <= t) =>
            LET out == reset_password(users, users[id].password_reset_token[1], pw, t) IN
            /\ out.response.status = 400
            /\ out.response.code = "INVALID_TOKEN"
            /\ \A unknown \in Unheld(users) :
                  out.response = reset_password(users, unknown, pw, t).response
            /\ out.users = users
            /\ out.request = None

C11_Witness ==
    \E id \in Ids :
        /\ users[id].password_reset_token /= None
        /\ users[id].password_reset_expires /= None
        /\ users[id].password_reset_expires[1] <= now
        /\ Unheld(users) /= {}

\* C12: a successful ResetPassword replaces the password hash, sets the reset
\* token and its expiry to None and returns no access token; a second
\* ResetPassword in sequence with the same token fails with InvalidTokenError.
C12_ResetIsSingleUse ==
    /\ \A token \in ResetTokens, pw \in Passwords, pw2 \in Passwords :
          LET out == reset_password(users, token, pw, now) IN
          out.request /= None =>
              LET id == out.request[1].id
                  done == reset_password_save(out.users, out.request[1])
                  again == reset_password(done.users, token, pw2, now)
              IN /\ Holder(users, token) = Some(id)
                 /\ done.response.code = "OK"
                 /\ done.response.access_token = None
                 /\ done.response.token_type = None
                 /\ done.users[id].password_hash = get_password_hash(pw)
                 /\ verify_password(pw, done.users[id].password_hash)
                 /\ done.users[id].password_reset_token = None
                 /\ done.users[id].password_reset_expires = None
                 /\ \A other \in Ids \ {id} : done.users[other] = users[other]
                 /\ again.response = InvalidResetToken
                 /\ again.request = None
                 /\ again.users = done.users
    /\ \A r \in InFlight("reset_password") :
          LET done == reset_password_save(users, r) IN
          /\ done.users[r.id].password_reset_token = None
          /\ done.users[r.id].password_reset_expires = None
          /\ done.users[r.id].password_hash = r.user.password_hash
          /\ done.response.access_token = None

C12_Witness ==
    \E r \in InFlight("reset_password") :
        /\ users[r.id].password_reset_token /= None
        /\ users[r.id].password_hash /= r.user.password_hash
        /\ reset_password_save(users, r).users[r.id].password_reset_token = None

\* C13: after ForgotPassword and a successful ResetPassword(token, p) for an
\* active verified user, Login with p succeeds and Login with the password of
\* before (different from p) fails with InvalidCredentialsError.
C13_LoginAfterReset ==
    \A id \in Ids, p \in StrongPasswords, old \in Passwords :
        (/\ users[id].is_active /\ users[id].is_verified
         /\ verify_password(old, users[id].password_hash)
         /\ old /= p) =>
            LET email == users[id].email
                asked == forgot_password(users, email, now, issued + 1)
                s1 == forgot_password_save(asked.users, asked.request[1], TRUE).users
                reset == reset_password(s1, issued + 1, p, now)
                s2 == reset_password_save(reset.users, reset.request[1]).users
            IN /\ asked.request /= None
               /\ reset.request /= None
               /\ login_user(users, email, old, now).code = "OK"
               /\ login_user(s2, email, p, now).code = "OK"
               /\ login_user(s2, email, p, now).user_id = Some(IdStr(id))
               /\ login_user(s2, email, old, now) = InvalidCredentials

C13_Witness ==
    \E r \in InFlight("reset_password") :
        /\ users[r.id].is_active /\ users[r.id].is_verified
        /\ login_user(users, r.user.email, PwXyzw5678, now) = InvalidCredentials
        /\ login_user(reset_password_save(users, r).users, r.user.email, PwXyzw5678, now).code = "OK"
        /\ login_user(reset_password_save(users, r).users, r.user.email, PwAbcd1234, now)
              = InvalidCredentials

\* C14: ResetPassword with an unexpired token and a new password that fails
\* the strength check returns ValidationError and changes nothing: the
\* password hash is as it was, and the token is accepted by a later
\* ResetPassword at every time before its expiry, and at none from it on.
C14_WeakPasswordKeepsToken ==
    \A id \in Ids, weak \in Passwords \ StrongPasswords, p \in StrongPasswords :
        (/\ users[id].password_reset_token /= None
         /\ users[id].password_reset_expires /= None
         /\ now < users[id].password_reset_expires[1]) =>
            LET token == users[id].password_reset_token[1]
                out == reset_password(users, token, weak, now)
            IN /\ out.response = ValidationError(validate_password(weak).message)
               /\ out.response.status = 400
               /\ out.response.code = "VALIDATION_ERROR"
               /\ out.users = users
               /\ out.request = None
               /\ \A t \in Times :
                     (reset_password(out.users, token, p, t).request /= None)
                        <=> (t < users[id].password_reset_expires[1])

C14_Witness ==
    \E id \in Ids :
        /\ users[id].password_reset_token /= None
        /\ users[id].password_reset_expires /= None
        /\ now < users[id].password_reset_expires[1]
        /\ reset_password(users, users[id].password_reset_token[1], PwWeak, now).response.code
              = "VALIDATION_ERROR"

\* C15: in every interleaving of the auth operations, a stored password hash
\* changes only in the save of a ResetPassword for that user, to the hash of
\* that call's new password: no step of Register, VerifyEmail, Login or
\* ForgotPassword changes a user's password hash or puts an earlier one back.
C15_HashChangesOnlyByReset ==
    [][\A id \in 1..Len(users) :
          users'[id].password_hash /= users[id].password_hash =>
              \E r \in InFlight("reset_password") :
                  /\ r.id = id
                  /\ users' = reset_password_save(users, r).users
                  /\ inflight' = inflight (-) SetToBag({r})]_vars

\* C16: VerifyEmail with a token a user holds sets is_verified, clears the
\* verification token and returns an access token for that user; with a token
\* no user holds it fails with InvalidTokenError and changes no user; so the
\* same token presented a second time, in sequence, fails with
\* InvalidTokenError.
C16_VerifyEmailOnce ==
    \A token \in ResetTokens :
        LET out == verify_email(users, token, now)
            held == \E id \in Ids : users[id].email_verification_token = Some(token)
        IN /\ (out.request /= None) <=> held
           /\ out.users = users
           /\ ~held => out.response = InvalidVerificationToken /\ out.response.status = 400
           /\ held =>
                 LET id == out.request[1].id
                     done == verify_email_save(out.users, out.request[1], now, TRUE)
                     again == verify_email(done.users, token, now)
                 IN /\ users[id].email_verification_token = Some(token)
                    /\ done.users[id].is_verified
                    /\ done.users[id].email_verification_token = None
                    /\ done.users[id].password_hash = users[id].password_hash
                    /\ \A other \in Ids \ {id} : done.users[other] = users[other]
                    /\ done.response.code = "OK"
                    /\ done.response.access_token /= None
                    /\ done.response.access_token[1].sub = users[id].email
                    /\ done.response.access_token[1].user_id = IdStr(id)
                    /\ again.response = InvalidVerificationToken
                    /\ again.request = None
                    /\ again.users = done.users

C16_Witness ==
    /\ Len(users) = 2
    /\ users[1].is_verified /\ users[1].email_verification_token = None
    /\ ~users[2].is_verified /\ users[2].email_verification_token /= None
    /\ verify_email(users, 1, now).response = InvalidVerificationToken

C19_InvalidTokensUniform ==
    \A token \in BearerTokens :
        LET bad_signature == token.wellformed /\ token.key /= secret_key
            expired == token.wellformed /\ token.claims.exp < now
            malformed == ~token.wellformed
            current_user == dependencies_get_current_user(users, Some(token), now)
        IN /\ (bad_signature \/ expired \/ malformed) <=> (verify_token(token, now) = None)
           /\ (bad_signature \/ expired \/ malformed) =>
                 /\ current_user.user = None
                 /\ current_user.error = Some(InvalidToken)
                 /\ InvalidToken.status = 401
                 /\ InvalidToken.code = "INVALID_TOKEN"

C19_Witness ==
    /\ now = MaxTime
    /\ Len(users) = 1
    /\ users[1].is_verified
    /\ LET issued_now == create_access_token([sub |-> users[1].email, user_id |-> IdStr(1)], now)
           issued_before == create_access_token([sub |-> users[1].email, user_id |-> IdStr(1)],
                                                0 - (access_token_expire_minutes \div 60))
       IN /\ verify_token(Bearer(issued_now), now) /= None
          /\ dependencies_get_current_user(users, Some(Bearer(issued_now)), now).user = Some(1)
          /\ Bearer(issued_before) \in BearerTokens
          /\ issued_before.exp < now
          /\ dependencies_get_current_user(users, Some(Bearer(issued_before)), now).error
                 = Some(InvalidToken)
          /\ dependencies_get_current_user(users, Some(NotAJwt), now).error = Some(InvalidToken)

\* The request headers the gates tell apart: the sessions, tokens for user 1
\* of every age under either key, and a token for an id no user has.
GateCases ==
    Sessions \cup
    {Some(token) : token \in {b \in BearerTokens :
                                 /\ b.wellformed
                                 /\ b.claims.sub = Some("a@x.io")
                                 /\ b.claims.user_id = Some(IdStr(1))}} \cup
    {Some(jwt_encode([sub |-> Some("a@x.io"), user_id |-> Some(IdStr(Len(users) + 1)),
                      exp |-> access_token_expire_minutes \div 60], secret_key))}

\* What the protected endpoints come to for a request header, over every
\* input.
EndpointOutcomes(credentials) ==
    {me(users, templates, items, credentials, now)}
    \cup {get_task_templates(users, templates, items, credentials, now, skip, limit) :
             skip \in Skips, limit \in Limits}
    \cup {create_task_template(users, templates, items, credentials, now, name) :
             name \in Names}
    \cup {get_task_template(users, templates, items, credentials, now, template_id) :
             template_id \in TemplateIds}
    \cup {update_task_template(users, templates, items, credentials, now, template_id, name) :
             template_id \in TemplateIds, name \in OptionalNames}
    \cup {delete_task_template(users, templates, items, credentials, now, template_id) :
             template_id \in TemplateIds}
    \cup {get_task_items(users, templates, items, credentials, now, template_id, skip, limit) :
             template_id \in OptionalTemplateIds, skip \in Skips, limit \in Limits}
    \cup {create_task_item(users, templates, items, credentials, now, name, template_id) :
             name \in Names, template_id \in OptionalTemplateIds}
    \cup {get_task_item(users, templates, items, credentials, now, item_id) :
             item_id \in ItemIds}
    \cup {update_task_item(users, templates, items, credentials, now, item_id, name, template_id) :
             item_id \in ItemIds, name \in OptionalNames, template_id \in OptionalTemplateIds}
    \cup {delete_task_item(users, templates, items, credentials, now, item_id) :
             item_id \in ItemIds}

\* C18: the three gates run in order on every request header: no header is
\* MISSING_TOKEN (401); a token that does not verify is INVALID_TOKEN (401);
\* a verified token whose claims name no stored active user is 401; an active
\* unverified user is UNVERIFIED_USER (403); a user is resolved exactly when
\* all three pass.  And no template or item endpoint, nor /auth/me, runs its
\* handler for a request that fails a gate: it answers the gate's error and
\* leaves both collections as they were.
C18_GatesBeforeTasks ==
    /\ \A credentials \in Credentials :
          LET gate == get_current_verified_user(users, credentials, now)
              verifies == /\ credentials /= None
                          /\ credentials[1].wellformed
                          /\ credentials[1].key = secret_key
                          /\ credentials[1].claims.exp >= now
              claims == credentials[1].claims
              id == claims.user_id[1][2]
              resolves == /\ verifies
                          /\ claims.sub \in {Some(e) : e \in Emails}
                          /\ claims.user_id \in {Some(IdStr(i)) : i \in 1..Len(users)}
                          /\ users[id].is_active
          IN /\ credentials = None => gate.error = Some(MissingToken)
             /\ credentials /= None /\ ~verifies => gate.error = Some(InvalidToken)
             /\ verifies /\ ~resolves =>
                   gate.error /= None /\ gate.error[1].status = 401
                       /\ gate.error[1].code = "HTTP_ERROR"
             /\ resolves /\ ~users[id].is_verified => gate.error = Some(UnverifiedUser)
             /\ resolves /\ users[id].is_verified => gate.user = Some(id) /\ gate.error = None
             /\ (gate.user = None) <=> (gate.error /= None)
             /\ MissingToken.status = 401 /\ MissingToken.code = "MISSING_TOKEN"
             /\ InvalidToken.status = 401 /\ InvalidToken.code = "INVALID_TOKEN"
             /\ UnverifiedUser.status = 403 /\ UnverifiedUser.code = "UNVERIFIED_USER"
    /\ \A credentials \in GateCases :
          LET gate == get_current_verified_user(users, credentials, now) IN
          \A out \in EndpointOutcomes(credentials) :
              IF gate.user = None
              THEN /\ out.response = gate.error[1]
                   /\ out.templates = templates
                   /\ out.items = items
              ELSE out.response.status \in {200, 201, 400, 404}

C18_Witness ==
    /\ users[1].is_active /\ ~users[1].is_verified
    /\ now = MaxTime
    /\ Len(templates) = 1 /\ templates[1] /= None /\ Len(items) = 1 /\ items[1] /= None
    /\ LET unverified == Some(Bearer(create_access_token(
                                  [sub |-> users[1].email, user_id |-> IdStr(1)], 0)))
       IN /\ unverified \in Sessions
          /\ get_task_template(users, templates, items, unverified, now, IdStr(1)).response
                 = UnverifiedUser
          /\ delete_task_item(users, templates, items, unverified, now, IdStr(1)).items = items

\* A by-id handler refuses with `error` and leaves both collections alone.
NotFoundUnchanged(out, error) ==
    /\ out.response = error
    /\ out.response.status = 404
    /\ out.templates = templates
    /\ out.items = items

\* The rows of a collection that are stored and owned by a user other than
\* the caller, and the id strings that name no stored row.
Foreign(collection, user_id) ==
    {id \in 1..Len(collection) : collection[id] /= None /\ collection[id][1].user_id /= user_id}
Absent(collection) ==
    {id_str \in TemplateIds \cup ItemIds \cup {IdStr(MaxRows + 1), <<>>} :
        Document_get(collection, id_str) = None}

\* C20: get, update and delete of a template or an item by id answer, for a
\* row that is stored but owned by another user, exactly what they answer for
\* an id that names no row: 404 with the same code and message
\* (TEMPLATE_NOT_FOUND or ITEM_NOT_FOUND); and they leave the row, and both
\* collections, unchanged.
C20_ForeignLikeAbsent ==
    \A caller \in 1..Len(users) :
        LET user_id == IdStr(caller) IN
        /\ \A id \in Foreign(templates, user_id), absent \in Absent(templates) :
              /\ NotFoundUnchanged(get_template(templates, items, IdStr(id), user_id),
                                   get_template(templates, items, absent, user_id).response)
              /\ NotFoundUnchanged(delete_template(templates, items, IdStr(id), user_id),
                                   delete_template(templates, items, absent, user_id).response)
              /\ \A name \in OptionalNames :
                    NotFoundUnchanged(
                        update_template(templates, items, IdStr(id), name, user_id, now),
                        update_template(templates, items, absent, name, user_id, now).response)
              /\ get_template(templates, items, absent, user_id).response = TemplateNotFound
        /\ \A id \in Foreign(items, user_id), absent \in Absent(items) :
              /\ NotFoundUnchanged(get_item(templates, items, IdStr(id), user_id),
                                   get_item(templates, items, absent, user_id).response)
              /\ NotFoundUnchanged(delete_item(templates, items, IdStr(id), user_id),
                                   delete_item(templates, items, absent, user_id).response)
              /\ \A name \in OptionalNames, template_id \in OptionalTemplateIds :
                    NotFoundUnchanged(
                        update_item(templates, items, IdStr(id), name, template_id, user_id, now),
                        update_item(templates, items, absent, name, template_id,
                                    user_id, now).response)
              /\ get_item(templates, items, absent, user_id).response = ItemNotFound

C20_Witness ==
    /\ Len(templates) = 1 /\ templates[1] /= None /\ templates[1][1].user_id = IdStr(2)
    /\ Len(items) = 1 /\ items[1] /= None /\ items[1][1].user_id = IdStr(1)
    /\ 1 \in Foreign(templates, IdStr(1))
    /\ 1 \in Foreign(items, IdStr(2))
    /\ delete_template(templates, items, IdStr(1), IdStr(1)).response = TemplateNotFound
    /\ update_item(templates, items, IdStr(1), Some("Errands"), None, IdStr(2), now).response
           = ItemNotFound

\* The skip and limit values a list request is checked with, and the rows of
\* a collection a user owns.
PageSkips == 0..(MaxRows + 1)
PageLimits == 1..(MaxRows + 1)
Own(collection, user_id) ==
    {id \in 1..Len(collection) : collection[id] /= None /\ collection[id][1].user_id = user_id}
RowIds(rows) == {ParseId(rows[i].id)[1] : i \in 1..Len(rows)}

\* C21: in every state the task operations of any users lead to, the template
\* list and the item list of a caller hold only rows the caller owns, each as
\* stored, and total counts exactly the caller's rows (for items: those that
\* match the template filter); a caller who owns no rows gets an empty page
\* and total 0 whatever the other users own.
C21_ListsScopedToOwner ==
    \A caller \in 1..Len(users), skip \in PageSkips, limit \in PageLimits :
        LET user_id == IdStr(caller)
            tl == get_user_templates(templates, items, user_id, skip, limit)
        IN /\ RowIds(tl.response.rows) \subseteq Own(templates, user_id)
           /\ \A i \in 1..Len(tl.response.rows) :
                 tl.response.rows[i] =
                     TaskTemplateResponse(200, ParseId(tl.response.rows[i].id)[1],
                                          templates[ParseId(tl.response.rows[i].id)[1]][1])
           /\ tl.response.total = Cardinality(Own(templates, user_id))
           /\ Own(templates, user_id) = {} => tl.response.rows = <<>> /\ tl.response.total = 0
           /\ tl.templates = templates /\ tl.items = items
           /\ \A template_id \in OptionalTemplateIds :
                 LET il == get_user_items(templates, items, user_id, template_id, skip, limit)
                     matching == {id \in Own(items, user_id) :
                                     ~Missing(template_id, <<>>) =>
                                         items[id][1].template_id = template_id}
                 IN /\ il.templates = templates /\ il.items = items
                    /\ il.response.status = 200 =>
                          /\ RowIds(il.response.rows) \subseteq matching
                          /\ \A i \in 1..Len(il.response.rows) :
                                il.response.rows[i] =
                                    TaskItemResponse(200, ParseId(il.response.rows[i].id)[1],
                                                     items[ParseId(il.response.rows[i].id)[1]][1])
                          /\ il.response.total = Cardinality(matching)
                    /\ Missing(template_id, <<>>) => il.response.status = 200
                    /\ Own(items, user_id) = {} /\ il.response.status = 200 =>
                          il.response.rows = <<>> /\ il.response.total = 0

C21_Witness ==
    /\ Len(templates) = 1 /\ Own(templates, IdStr(2)) = {1}
    /\ Len(items) = 1 /\ Own(items, IdStr(1)) = {1}
    /\ get_user_templates(templates, items, IdStr(1), 0, 1).response.total = 0
    /\ get_user_templates(templates, items, IdStr(2), 0, 1).response.total = 1
    /\ get_user_items(templates, items, IdStr(2), None, 0, 1).response.rows = <<>>
    /\ Len(get_user_items(templates, items, IdStr(1), None, 0, 1).response.rows) = 1

\* A suspended delete_template run on from await to await with nothing in
\* between, to its response.
RECURSIVE delete_template_resume(_, _, _)
delete_template_resume(tpls, its, r) ==
    LET out == IF r.at = "find" THEN delete_template_find(tpls, its, r)
               ELSE IF r.at = "delete_item" THEN delete_template_item(tpls, its, r)
               ELSE delete_template_delete(tpls, its, r)
    IN IF out.request = None THEN out
       ELSE delete_template_resume(out.templates, out.items, out.request[1])

\* The stored items of a user that name a template id.
ItemsOf(its, template_id, user_id) ==
    {id \in 1..Len(its) : /\ its[id] /= None
                          /\ its[id][1].template_id = Some(template_id)
                          /\ its[id][1].user_id = user_id}

\* C22: delete_template on a template the caller owns, run from its first
\* await to its response with no other request in between, deletes exactly
\* the caller's items whose template_id is the template's id, then the
\* template, and answers deleted_items_count = the number of items removed;
\* afterwards those items and the template are not found, and every other
\* item and template is as it was.  The handler run in one step comes to the
\* same.
C22_DeleteTemplateCascades ==
    \A template_id \in CascadeTemplateIds :
        LET user_id == IdStr(1)
            first == delete_template_get(templates, items, template_id, user_id)
            doomed == ItemsOf(items, template_id, user_id)
        IN /\ (first.request /= None) <=> (get_owned(templates, template_id, user_id) /= None)
           /\ first.request /= None =>
                 LET out == delete_template_resume(templates, items, first.request[1])
                     id == ParseId(template_id)[1]
                 IN /\ out.response.status = 200
                    /\ out.response.deleted_items_count = Cardinality(doomed)
                    /\ Len(out.items) = Len(items) /\ Len(out.templates) = Len(templates)
                    /\ \A item \in 1..Len(items) :
                          IF item \in doomed
                          THEN /\ out.items[item] = None
                               /\ get_item(out.templates, out.items, IdStr(item), user_id).response
                                      = ItemNotFound
                          ELSE out.items[item] = items[item]
                    /\ out.templates[id] = None
                    /\ get_template(out.templates, out.items, template_id, user_id).response
                           = TemplateNotFound
                    /\ \A other \in 1..Len(templates) :
                          other /= id => out.templates[other] = templates[other]
                    /\ delete_template(templates, items, template_id, user_id)
                           = TaskOutcome(out.response, out.templates, out.items)

C22_Witness ==
    /\ inflight = EmptyBag
    /\ Len(templates) > 1 /\ templates[2] /= None
    /\ Cardinality(ItemsOf(items, IdStr(2), IdStr(1))) = MaxItems
    /\ ItemsOf(items, IdStr(1), IdStr(2)) = {1}
    /\ delete_template(templates, items, IdStr(2), IdStr(1)).response.deleted_items_count
           = MaxItems

\* The stored items whose template_id names no stored template.
Orphaned(tpls, its) ==
    {id \in 1..Len(its) : /\ its[id] /= None
                          /\ ~Missing(its[id][1].template_id, <<>>)
                          /\ Document_get(tpls, its[id][1].template_id[1]) = None}

\* A suspended delete_template run on, with nothing in between, up to the
\* await of template.delete().
RECURSIVE delete_template_items_phase(_, _, _)
delete_template_items_phase(tpls, its, r) ==
    IF r.at = "delete" THEN TaskStep(Pending, tpls, its, Some(r))
    ELSE LET out == IF r.at = "find" THEN delete_template_find(tpls, its, r)
                    ELSE delete_template_item(tpls, its, r)
         IN delete_template_items_phase(out.templates, out.items, out.request[1])

\* C23 as stated: a delete_template that dies between its item-deletion
\* phase and template.delete(), having deleted items, leaves an orphaned
\* item: a stored item whose template_id is the id of its template, which is
\* stored no more.
C23_CrashLeavesOrphans ==
    [][\A r \in AwaitingAt("delete_template", "delete") :
          DeleteTemplateCrash(r) /\ r.count > 0 =>
              \E id \in Orphaned(templates', items') :
                  items'[id][1].template_id = Some(IdStr(r.id))]_vars

\* C23, amended: the two phases are not atomic, and the items go first: a
\* delete_template that dies between its item-deletion phase and
\* template.delete() has deleted the caller's items of the template and left
\* the template stored, unchanged; no item comes to name a missing template
\* by it, and every other row is as it was.
C23_CrashLeavesTemplateWithoutItems ==
    \A template_id \in CascadeTemplateIds :
        LET user_id == IdStr(1)
            first == delete_template_get(templates, items, template_id, user_id)
        IN first.request /= None =>
              LET crashed == delete_template_items_phase(templates, items, first.request[1])
                  id == ParseId(template_id)[1]
              IN /\ crashed.request[1].at = "delete"
                 /\ crashed.request[1].found = <<>>
                 /\ crashed.request[1].count = Cardinality(ItemsOf(items, template_id, user_id))
                 /\ crashed.templates = templates
                 /\ crashed.templates[id] /= None
                 /\ ItemsOf(crashed.items, template_id, user_id) = {}
                 /\ \A item \in 1..Len(items) :
                       item \notin ItemsOf(items, template_id, user_id) =>
                           crashed.items[item] = items[item]
                 /\ Orphaned(crashed.templates, crashed.items) \subseteq Orphaned(templates, items)
                 /\ get_template(crashed.templates, crashed.items, template_id, user_id)
                        .response.status = 200

C23_Witness ==
    \E r \in AwaitingAt("delete_template", "delete") :
        /\ r.count = MaxItems
        /\ r.found = <<>>
        /\ templates[r.id] /= None
        /\ ItemsOf(items, IdStr(r.id), r.user_id) = {}
        /\ Orphaned(templates, items) = {}
        /\ \A id \in 2..Len(items) : items[id] = None
        /\ BagCardinality(inflight) = 1

\* C24: whenever a step of create_item or update_item writes an item with a
\* template_id that is not null, that template is stored and owned by the
\* item's user at the moment of the write, in every interleaving with
\* delete_template.
C24_WritesNameStoredTemplates ==
    [][\A id \in 1..Len(items') :
          /\ id > Len(items) \/ items'[id] /= items[id]
          /\ items'[id] /= None
          /\ items'[id][1].template_id /= None
          => get_owned(templates, items'[id][1].template_id[1], items'[id][1].user_id) /= None]_vars

ProbedTemplateIds == TemplateIds \cup {IdStr(MaxRows + 1)}

\* C25: create_item with a templateId that names no stored template, does not
\* parse, or names another user's template answers 400 TEMPLATE_NOT_FOUND and
\* leaves both collections as they were; create_item with no templateId
\* answers 201 and appends one item owned by the caller with template_id null.
C25_CreateItemValidatesTemplate ==
    \A caller \in 1..Len(users), name \in Names, t \in Times :
        LET user_id == IdStr(caller)
            bare == create_item(templates, items, name, None, user_id, t)
        IN /\ \A template_id \in ProbedTemplateIds :
                 get_owned(templates, template_id, user_id) = None =>
                     /\ create_item(templates, items, name, Some(template_id), user_id, t)
                            = TaskOutcome(InvalidTemplate, templates, items)
                     /\ InvalidTemplate.status = 400
                     /\ InvalidTemplate.code = "TEMPLATE_NOT_FOUND"
           /\ bare.response.status = 201
           /\ bare.templates = templates
           /\ bare.items = Append(items, Some(TaskItem(name, user_id, None, t)))
           /\ bare.response = TaskItemResponse(201, Len(items) + 1,
                                               TaskItem(name, user_id, None, t))

C25_Witness ==
    /\ Foreign(templates, IdStr(1)) /= {}
    /\ \E id \in Own(items, IdStr(1)) : items[id][1].template_id = None

\* C26: update_item on an item of the caller: with templateId omitted the
\* stored template_id stays; with the empty string it becomes null, and the
\* outcome is the one computed on an empty template collection (no lookup);
\* with a non-empty value it becomes that value when the value names a template
\* of the caller, and otherwise the call answers 400 TEMPLATE_NOT_FOUND and
\* writes nothing.
C26_UpdateItemTemplateThreeWays ==
    \A caller \in 1..Len(users), name \in OptionalNames, t \in Times :
        \A id \in Own(items, IdStr(caller)) :
            LET user_id == IdStr(caller)
                omitted == update_item(templates, items, IdStr(id), name, None, user_id, t)
                cleared == update_item(templates, items, IdStr(id), name, Some(<<>>), user_id, t)
            IN /\ omitted.response.status = 200
               /\ omitted.items[id][1].template_id = items[id][1].template_id
               /\ omitted.response.template_id = items[id][1].template_id
               /\ cleared.response.status = 200
               /\ cleared.items[id][1].template_id = None
               /\ cleared.response.template_id = None
               /\ cleared = [update_item(<<>>, items, IdStr(id), name, Some(<<>>), user_id, t)
                                EXCEPT !.templates = templates]
               /\ \A template_id \in ProbedTemplateIds :
                     LET linked == update_item(templates, items, IdStr(id), name,
                                               Some(template_id), user_id, t)
                     IN IF get_owned(templates, template_id, user_id) /= None
                        THEN /\ linked.response.status = 200
                             /\ linked.items[id][1].template_id = Some(template_id)
                             /\ linked.response.template_id = Some(template_id)
                             /\ linked.templates = templates
                        ELSE linked = TaskOutcome(InvalidTemplate, templates, items)

C26_Witness ==
    \E id \in Own(items, IdStr(1)) :
        /\ items[id][1].template_id /= None
        /\ get_owned(templates, items[id][1].template_id[1], IdStr(1)) /= None

\* C27: update_item on an item of the caller that provides no field, or a name
\* or a templateId equal to the stored one, leaves the item collection, and so
\* the item's updated_at, as it was, at whatever time the call is made.
C27_UnchangedFieldsKeepRow ==
    \A caller \in 1..Len(users), t \in Times :
        \A id \in Own(items, IdStr(caller)) :
            \A name \in {None, Some(items[id][1].name)},
               template_id \in {None} \cup
                   (IF items[id][1].template_id = None THEN {} ELSE {items[id][1].template_id}) :
                update_item(templates, items, IdStr(id), name, template_id, IdStr(caller), t).items
                    = items

\* C28: update_template on a template of the caller with no name answers with
\* the stored row and leaves both collections as they were, so a second call
\* on its outcome gives the same outcome; with a name it stores that name and
\* the time of the call as updated_at and answers with the row as stored.
C28_UpdateTemplateNoName ==
    \A caller \in 1..Len(users), t \in Times :
        \A id \in Own(templates, IdStr(caller)) :
            LET user_id == IdStr(caller)
                once == update_template(templates, items, IdStr(id), None, user_id, t)
            IN /\ once = TaskOutcome(TaskTemplateResponse(200, id, templates[id][1]),
                                     templates, items)
               /\ update_template(once.templates, once.items, IdStr(id), None, user_id, t) = once
               /\ \A name \in Names :
                     LET named == update_template(templates, items, IdStr(id), Some(name),
                                                  user_id, t)
                     IN /\ named.templates =
                              [templates EXCEPT ![id] = Some(TaskTemplate(name, user_id, t))]
                        /\ named.items = items
                        /\ named.response =
                              TaskTemplateResponse(200, id, TaskTemplate(name, user_id, t))

C28_Witness ==
    \E id \in Own(templates, IdStr(1)) :
        /\ templates[id][1].name = "Errands"
        /\ \E t \in Times : t /= templates[id][1].updated_at

PageSize(n, skip, limit) ==
    IF n - skip <= 0 THEN 0 ELSE IF n - skip < limit THEN n - skip ELSE limit

\* C29: for a caller with n templates (n items matching the filter), the list
\* with (skip, limit) holds min(limit, max(0, n - skip)) rows, all different,
\* and total = n for every skip and limit; two pages of the same state whose
\* ranges do not overlap share no row.
C29_PagesCountAndPartition ==
    \A caller \in 1..Len(users), skip \in PageSkips, limit \in PageLimits :
        LET user_id == IdStr(caller)
            tl == get_user_templates(templates, items, user_id, skip, limit).response
            n == Cardinality(Own(templates, user_id))
        IN /\ Len(tl.rows) = PageSize(n, skip, limit)
           /\ Cardinality(RowIds(tl.rows)) = Len(tl.rows)
           /\ tl.total = n
           /\ \A skip2 \in PageSkips, limit2 \in PageLimits :
                 skip + limit <= skip2 =>
                     RowIds(tl.rows) \cap
                     RowIds(get_user_templates(templates, items, user_id,
                                               skip2, limit2).response.rows) = {}
           /\ \A template_id \in OptionalTemplateIds :
                 LET il == get_user_items(templates, items, user_id, template_id,
                                          skip, limit).response
                     m == Cardinality({id \in Own(items, user_id) :
                                          ~Missing(template_id, <<>>) =>
                                              items[id][1].template_id = template_id})
                 IN il.status = 200 =>
                       /\ Len(il.rows) = PageSize(m, skip, limit)
                       /\ Cardinality(RowIds(il.rows)) = Len(il.rows)
                       /\ il.total = m
                       /\ \A skip2 \in PageSkips, limit2 \in PageLimits :
                             skip + limit <= skip2 =>
                                 RowIds(il.rows) \cap
                                 RowIds(get_user_items(templates, items, user_id, template_id,
                                                       skip2, limit2).response.rows) = {}

C29_Witness ==
    \E caller \in 1..Len(users) : Cardinality(Own(items, IdStr(caller))) = MaxRows

\* C30: a register, verify_email or forgot_password request that has made its
\* write gives the same response and leaves the same users whether the email
\* it sends goes out or fails; the two runs differ in nothing but the
\* gateway's report.
C30_SendFailureChangesNothing ==
    /\ \A r \in InFlight("register") :
          /\ register_user_insert(users, r, FALSE).response
                 = register_user_insert(users, r, TRUE).response
          /\ register_user_insert(users, r, FALSE).users
                 = register_user_insert(users, r, TRUE).users
          /\ register_user_insert(users, r, FALSE).request = None
    /\ \A r \in InFlight("verify_email") :
          /\ verify_email_save(users, r, now, FALSE).response
                 = verify_email_save(users, r, now, TRUE).response
          /\ verify_email_save(users, r, now, FALSE).users
                 = verify_email_save(users, r, now, TRUE).users
          /\ verify_email_save(users, r, now, FALSE).response.status = 200
    /\ \A r \in InFlight("forgot_password") :
          /\ forgot_password_save(users, r, FALSE).response
                 = forgot_password_save(users, r, TRUE).response
          /\ forgot_password_save(users, r, FALSE).users
                 = forgot_password_save(users, r, TRUE).users
          /\ forgot_password_save(users, r, FALSE).response.status = 200

C30_Witness ==
    /\ InFlight("verify_email") /= {}
    /\ InFlight("forgot_password") /= {}
    /\ \A r \in BagToSet(inflight) :
          r.op = "forgot_password" =>
              forgot_password_save(users, r, FALSE).mail /= forgot_password_save(users, r, TRUE).mail

\* Passwords to try: every sequence of up to three characters drawn from one
\* lowercase letter, one uppercase letter, one digit and one character that is
\* none of these, as it is and filled up with "!" to 7, 8 and 9 characters.
PasswordAlphabet == {"a", "A", "1", "!"}
PasswordPrefixes ==
    UNION {[1..k -> PasswordAlphabet] : k \in 0..(Cardinality(PasswordAlphabet) - 1)}
Fill(prefix, n) == [i \in 1..n |-> IF i <= Len(prefix) THEN prefix[i] ELSE "!"]
PasswordInputs ==
    Passwords \cup PasswordPrefixes \cup {Fill(prefix, n) : prefix \in PasswordPrefixes, n \in 7..9}

HasLower(password) == \E i \in 1..Len(password) : password[i] \in LowerChars
HasUpper(password) == \E i \in 1..Len(password) : password[i] \in UpperChars
HasDigit(password) == \E i \in 1..Len(password) : password[i] \in DigitChars

\* C31: validate_password accepts a password exactly when it has at least 8
\* characters, a lowercase letter, an uppercase letter and a digit; a rejected
\* password gets the message of the first rule it breaks in the order length,
\* lowercase, uppercase, digit; "weak" is rejected for its length and
\* "Abcd1234" is accepted.
C31_ValidatePasswordRules ==
    /\ \A password \in PasswordInputs :
          /\ validate_password(password).ok <=>
                 /\ Len(password) >= 8
                 /\ HasLower(password) /\ HasUpper(password) /\ HasDigit(password)
          /\ validate_password(password).message =
                 IF Len(password) < 8 THEN "Password must be at least 8 characters long"
                 ELSE IF ~HasLower(password)
                 THEN "Password must contain at least one lowercase letter"
                 ELSE IF ~HasUpper(password)
                 THEN "Password must contain at least one uppercase letter"
                 ELSE IF ~HasDigit(password) THEN "Password must contain at least one digit"
                 ELSE "Password is valid"
    /\ validate_password(PwWeak) =
           [ok |-> FALSE, message |-> "Password must be at least 8 characters long"]
    /\ validate_password(PwAbcd1234).ok
    /\ \A email \in Emails, password \in Passwords :
          register_user(users, email, password, now, issued + 1).request /= None
              => validate_password(password).ok

C31_Witness ==
    \E r \in InFlight("register") :
        /\ r.user.password_hash = get_password_hash(PwXyzw5678)
        /\ validate_password(PwXyzw5678).ok
        /\ register_user(users, r.user.email, PwWeak, now, issued + 1).response
               = ValidationError("Password must be at least 8 characters long")

\* C32: a reset token is spent by the one ResetPassword call that succeeds
\* with it: whenever a reset_password request completes (its save is made and
\* it answers 200), the user still holds a reset token, so that no second call
\* presenting the same token succeeds after the first has consumed it.
C32_ResetSucceedsOncePerToken ==
    [][\A r \in InFlight("reset_password") :
          ResetPasswordSave(r) => users[r.id].password_reset_token /= None]_vars

\* C33: every access token the service hands out, by verify_email at its save
\* or by login_user, is for a user who is active and verified in the store
\* the response leaves; verify_email hands none to a user whose is_active is
\* false.
C33_TokensOnlyForActiveVerified ==
    /\ \A r \in InFlight("verify_email"), sent \in BOOLEAN :
          LET out == verify_email_save(users, r, now, sent) IN
          out.response.access_token /= None =>
              out.users[r.id].is_active /\ out.users[r.id].is_verified
    /\ \A email \in Emails, password \in Passwords :
          LET found == find_one(users, "email", email) IN
          login_user(users, email, password, now).access_token /= None =>
              /\ found /= None
              /\ users[found[1]].is_active /\ users[found[1]].is_verified

\* C34: a request whose token verifies and names a stored user with is_active
\* false is answered 401 "User not found or inactive" by the session
\* dependency, and the active and the verified gate answer that same error;
\* for no request header does get_current_active_user, or the verified gate
\* after it, answer INACTIVE_USER (403).
C34_InactiveIsUnauthorized ==
    \A credentials \in Credentials :
        LET session == dependencies_get_current_user(users, credentials, now)
            active == get_current_active_user(users, credentials, now)
            verified == get_current_verified_user(users, credentials, now)
            payload == verify_token(credentials[1], now)
        IN /\ active.error /= Some(InactiveUser)
           /\ verified.error /= Some(InactiveUser)
           /\ active = session
           /\ session.user /= None => users[session.user[1]].is_active
           /\ /\ credentials /= None
              /\ payload /= None
              /\ ~Missing(payload[1].sub, "")
              /\ ~Missing(payload[1].user_id, <<>>)
              /\ get(users, payload[1].user_id[1]) /= None
              /\ ~users[get(users, payload[1].user_id[1])[1]].is_active
              => /\ session = [user |-> None,
                               error |-> Some(Unauthorized("User not found or inactive"))]
                 /\ session.error[1].status = 401
                 /\ verified = session

C34_Witness ==
    /\ ~users[1].is_active /\ users[1].is_verified
    /\ Len(users) = 2 /\ users[2].is_verified
    /\ now = MaxTime
    /\ LET held == Some(Bearer(create_access_token(
                            [sub |-> users[1].email, user_id |-> IdStr(1)], 0)))
       IN /\ held \in Credentials
          /\ verify_token(held[1], now) /= None
          /\ get_current_active_user(users, held, now).error /= None

\* C35: every step of the auth operations leaves each stored user with
\* is_verified false exactly when the email verification token is not null,
\* and leaves verified every user who was verified before the step, whichever
\* suspended request makes its whole-document save.
C35_VerifiedIffNoTokenAndStays ==
    [][/\ \A id \in 1..Len(users') :
             ~users'[id].is_verified <=> users'[id].email_verification_token /= None
       /\ \A id \in 1..Len(users) : users[id].is_verified => users'[id].is_verified]_vars

C35_Witness ==
    \E r \in InFlight("verify_email") :
        /\ users[r.id].is_verified
        /\ users[r.id].email_verification_token = None
        /\ users[r.id].password_reset_token /= None

\* C36: in every state the auth operations reach, each stored user, and each
\* document a suspended request is about to save, has the password reset token
\* and its expiry both null or both not null; a user holding a reset token is
\* active and verified, and so is the document of every forgot_password
\* request about to set one.
C36_ResetTokenWithExpiry ==
    /\ \A id \in 1..Len(users) :
          /\ users[id].password_reset_token = None <=> users[id].password_reset_expires = None
          /\ users[id].password_reset_token /= None =>
                 users[id].is_active /\ users[id].is_verified
    /\ \A r \in BagToSet(inflight) :
          /\ r.user.password_reset_token = None <=> r.user.password_reset_expires = None
          /\ r.op = "forgot_password" =>
                 /\ r.user.password_reset_token /= None
                 /\ r.user.is_active /\ r.user.is_verified
                 /\ users[r.id].is_active /\ users[r.id].is_verified
          /\ r.op = "reset_password" => r.user.password_reset_token = None

C36_Witness ==
    \E r \in InFlight("reset_password") :
        /\ users[r.id].password_reset_token /= None
        /\ users[r.id].password_reset_expires /= None
        /\ \E other \in 1..Len(users) :
              ~users[other].is_verified /\ users[other].password_reset_token = None

\* The stored states to look tokens up in: the store as it is, and the store
\* with one user's expiry set to any time or to null.
ResetStores ==
    {users} \cup
    {[users EXCEPT ![id].password_reset_expires = expires] :
        id \in 1..Len(users), expires \in {None} \cup {Some(e) : e \in Times}}

\* C37: for every stored state, token and time, get_by_reset_token returns a
\* user exactly when reset_password gets past its lookup and expiry checks
\* (the token is held by a user, the expiry is set and is later than the
\* time), and the user returned is the user reset_password goes on with.
C37_RepositoryLookupAgrees ==
    \A store \in ResetStores, token \in ResetTokens, t \in Times :
        LET user == get_by_reset_token(store, token, t)
            out == reset_password(store, token, PwAbcd1234, t)
            holder == find_one(store, "password_reset_token", Some(token))
        IN /\ user /= None <=> out.response /= InvalidResetToken
           /\ user /= None <=> out.request /= None
           /\ user /= None => out.request[1].id = user[1]
           /\ user /= None <=>
                 /\ holder /= None
                 /\ store[holder[1]].password_reset_expires /= None
                 /\ store[holder[1]].password_reset_expires[1] > t

C37_Witness ==
    \E id \in 1..Len(users) :
        /\ users[id].password_reset_token /= None
        /\ users[id].password_reset_expires = Some(now)
        /\ get_by_reset_token(users, users[id].password_reset_token[1], now) = None
        /\ get_by_reset_token(users, users[id].password_reset_token[1], now - 1) = Some(id)

\* C38: register_user with an email a stored user has answers
\* EMAIL_ALREADY_EXISTS whatever the password, a weak one included; with a
\* free email and a weak password it answers the validation error; and a
\* register_user that answers either error leaves the users as they were,
\* suspends no insert and has no email sent.
C38_ConflictBeforeStrength ==
    \A email \in Emails, password \in Passwords :
        LET out == register_user(users, email, password, now, issued + 1) IN
        /\ Stored(users, email) => out.response = EmailAlreadyExists
        /\ ~Stored(users, email) /\ ~validate_password(password).ok =>
               out.response = ValidationError(validate_password(password).message)
        /\ out.response \in {EmailAlreadyExists,
                             ValidationError(validate_password(password).message)} =>
               /\ out.users = users
               /\ out.request = None
               /\ out.mail = None
        /\ EmailAlreadyExists.code = "EMAIL_ALREADY_EXISTS"
        /\ EmailAlreadyExists /= ValidationError(validate_password(PwWeak).message)

C38_Witness ==
    /\ Len(users) = 1
    /\ register_user(users, users[1].email, PwWeak, now, issued + 1).response = EmailAlreadyExists
    /\ \E email \in Emails :
          register_user(users, email, PwWeak, now, issued + 1).response.code = "VALIDATION_ERROR"

ProbedItemIds == ItemIds \cup {IdStr(MaxRows + 1)}
ProbedLinks == OptionalTemplateIds \cup {Some(IdStr(MaxRows + 1))}

\* C39: update_item on an item id that names no row, does not parse or names
\* another user's row answers 404 ITEM_NOT_FOUND whatever the templateId, an
\* invalid one included; on an item of the caller with a templateId that is
\* not a template of the caller it answers 400 TEMPLATE_NOT_FOUND; in both
\* cases the collections stay as they were, whatever name came with the call.
C39_ItemBeforeTemplate ==
    \A caller \in 1..Len(users), name \in OptionalNames, t \in Times :
        \A item_id \in ProbedItemIds, template_id \in ProbedLinks :
            LET user_id == IdStr(caller)
                out == update_item(templates, items, item_id, name, template_id, user_id, t)
                invalid == /\ ~Missing(template_id, <<>>)
                           /\ get_owned(templates, template_id[1], user_id) = None
            IN /\ get_owned(items, item_id, user_id) = None =>
                      /\ out = TaskOutcome(ItemNotFound, templates, items)
                      /\ out.response.status = 404
               /\ get_owned(items, item_id, user_id) /= None /\ invalid =>
                      /\ out = TaskOutcome(InvalidTemplate, templates, items)
                      /\ out.response.status = 400
                      /\ out.items[get_owned(items, item_id, user_id)[1]]
                             = items[get_owned(items, item_id, user_id)[1]]

C39_Witness ==
    /\ Foreign(items, IdStr(1)) /= {}
    /\ Own(items, IdStr(1)) /= {}
    /\ \E id \in Own(items, IdStr(1)) :
          update_item(templates, items, IdStr(id), Some("Errands"), Some(IdStr(1)), IdStr(1), now)
              .response = InvalidTemplate

\* C40: in every state the task endpoints reach when served one after the
\* other, with the empty string among the templateIds sent, each stored item's
\* template_id is null or the id of a stored template of the item's owner.
C40_ItemsReferenceOwnTemplates ==
    \A id \in 1..Len(items) :
        items[id] /= None =>
            \/ items[id][1].template_id = None
            \/ get_owned(templates, items[id][1].template_id[1], items[id][1].user_id) /= None
====
